---------------------------- MODULE Spec2Model ----------------------------
(***************************************************************************)
(* Mirror + hardlink-increment backup (vbasil2000/backup-manager).         *)
(*                                                                         *)
(* Two implementations live in the repository and both are modelled:       *)
(*   variant "axiomatic" : src/src/backup.py  (class AxiomaticBackupSystem)*)
(*   variant "script"    : src/backup.py      (function backup)            *)
(*                                                                         *)
(* Strings that the code matches against patterns are sequences of tokens  *)
(* (a token is a run of characters no pattern of the model splits): the    *)
(* name "x.txt" is <<"x", ".txt">>, the pattern "*.txt:rec" is             *)
(* <<"*", ".txt", ":rec">>, and the relative path notes/drafts/x.txt as a   *)
(* string is <<"notes", "/", "drafts", "/", "x", ".txt">>.  A relative      *)
(* path (pathlib.Path) is the sequence of its component names.             *)
(***************************************************************************)
EXTENDS Integers, Sequences, FiniteSets, TLC

-----------------------------------------------------------------------------
(* Tokens *)
SEP  == "/"
REC  == ":rec"
STAR == "*"

(* Names and paths of the source universe *)
NOTES  == <<"notes">>
DRAFTS == <<"drafts">>
A_TXT  == <<"a", ".txt">>
B_TXT  == <<"b", ".txt">>
X_TXT  == <<"x", ".txt">>
Y_TMP  == <<"y", ".tmp">>

F_a == <<A_TXT>>
F_b == <<NOTES, B_TXT>>
F_x == <<NOTES, DRAFTS, X_TXT>>
F_y == <<NOTES, DRAFTS, Y_TMP>>

SrcFiles == {F_a, F_b, F_x, F_y}

D_notes  == <<NOTES>>
D_drafts == <<NOTES, DRAFTS>>

(* Patterns a configuration may hold *)
P_notes      == <<"notes">>
P_drafts     == <<"notes", SEP, "drafts">>
P_txt        == <<STAR, ".txt">>
P_txt_rec    == <<STAR, ".txt", REC>>
P_drafts_txt == <<"notes", SEP, "drafts", SEP, STAR, ".txt">>
P_tmp_rec    == <<STAR, ".tmp", REC>>

DirPatterns  == {P_notes, P_drafts}
FilePatterns == {P_txt, P_txt_rec, P_drafts_txt, P_tmp_rec}

-----------------------------------------------------------------------------
(* Paths and strings *)

Parent(path) == SubSeq(path, 1, Len(path) - 1)
Name(path)   == path[Len(path)]

(* p is a (non-strict) prefix of q, component by component *)
IsPrefix(p, q) == Len(p) <= Len(q) /\ SubSeq(q, 1, Len(p)) = p

(* str(rel_path): the components joined by "/" *)
RECURSIVE PathStr(_)
PathStr(path) ==
    IF Len(path) = 0 THEN <<>>
    ELSE IF Len(path) = 1 THEN path[1]
    ELSE path[1] \o <<SEP>> \o PathStr(Tail(path))

HasSep(s) == \E i \in 1..Len(s) : s[i] = SEP

HasWildcard(s) == \E i \in 1..Len(s) : s[i] = STAR

(* str.split("/") *)
RECURSIVE SplitParts(_)
SplitParts(s) ==
    IF ~HasSep(s) THEN <<s>>
    ELSE LET i == CHOOSE k \in 1..Len(s) :
                     s[k] = SEP /\ \A j \in 1..(k-1) : s[j] # SEP
         IN  <<SubSeq(s, 1, i-1)>> \o SplitParts(SubSeq(s, i+1, Len(s)))

(* str.rsplit("/", 1) of a string that holds a "/" *)
RSplit(s) ==
    LET i == CHOOSE k \in 1..Len(s) :
                 s[k] = SEP /\ \A j \in (k+1)..Len(s) : s[j] # SEP
    IN  [dir_part |-> SubSeq(s, 1, i-1), file_pat |-> SubSeq(s, i+1, Len(s))]

(* fnmatch.fnmatch(s, pat): "*" matches any run of characters, "/" included *)
RECURSIVE fnmatch(_, _)
fnmatch(s, pat) ==
    IF Len(pat) = 0 THEN Len(s) = 0
    ELSE IF Head(pat) = STAR
         THEN fnmatch(s, Tail(pat)) \/ (Len(s) > 0 /\ fnmatch(Tail(s), pat))
         ELSE Len(s) > 0 /\ Head(s) = Head(pat) /\ fnmatch(Tail(s), Tail(pat))

(* Path.glob(pat) selects `path` (relative to the globbed directory): one   *)
(* pattern component per path component, "*" never crossing a "/"          *)
GlobSelects(path, pat) ==
    LET parts == SplitParts(pat)
    IN  /\ Len(parts) = Len(path)
        /\ \A i \in 1..Len(path) : fnmatch(path[i], parts[i])

(* Path.rglob(pat) = glob("**/" + pat): the pattern at any depth *)
RGlobSelects(path, pat) ==
    \E k \in 0..(Len(path) - 1) :
        GlobSelects(SubSeq(path, k + 1, Len(path)), pat)

-----------------------------------------------------------------------------
(* The source tree: the existing files and the existing directories.       *)

(* the directories that hold the given files *)
ParentDirs(files) ==
    UNION {{SubSeq(f, 1, n) : n \in 1..(Len(f) - 1)} : f \in files}

Under(dir, files) == {f \in files : IsPrefix(dir, f) /\ f # dir}

-----------------------------------------------------------------------------
(* Pattern expansion and exclusion tests, variant "axiomatic"              *)

(* parse_pattern_cached: (pattern without ":rec", is_rec) *)
parse_pattern_cached(pattern) ==
    IF Len(pattern) > 0 /\ pattern[Len(pattern)] = REC
    THEN [pat |-> SubSeq(pattern, 1, Len(pattern) - 1), is_rec |-> TRUE]
    ELSE [pat |-> pattern, is_rec |-> FALSE]

(* expand_directory_patterns: the existing directories the patterns name;  *)
(* a pattern with a wildcard goes through glob, a plain one is joined to   *)
(* the base path and tested for existence                                  *)
expand_directory_patterns(dirs, patterns) ==
    {d \in dirs :
        \E pattern \in patterns :
            /\ Len(pattern) > 0
            /\ IF HasWildcard(pattern)
               THEN GlobSelects(d, pattern)
               ELSE d = SplitParts(pattern)}

(* expand_file_patterns: glob, or rglob for a ":rec" pattern *)
(* variation of expand_file_patterns that drops the ":rec" branch and uses  *)
(* a plain glob for every pattern                                          *)
expand_file_patterns_glob_only(files, patterns) ==
    {f \in files :
        \E pattern \in patterns :
            GlobSelects(f, parse_pattern_cached(pattern).pat)}

expand_file_patterns(files, patterns) ==
    {f \in files :
        \E pattern \in patterns :
            LET pp == parse_pattern_cached(pattern)
            IN  IF pp.is_rec THEN RGlobSelects(f, pp.pat)
                             ELSE GlobSelects(f, pp.pat)}

(* is_file_excluded: a ":rec" pattern is matched against the whole relative *)
(* path, any other pattern against the file name alone                     *)
is_file_excluded(rel_path, exclude_patterns) ==
    \E pattern \in exclude_patterns :
        LET pp == parse_pattern_cached(pattern)
        IN  IF pp.is_rec THEN fnmatch(PathStr(rel_path), pp.pat)
                         ELSE fnmatch(Name(rel_path), pp.pat)

(* is_dir_excluded_cached: an excluded directory is the directory itself   *)
(* or one of its parents                                                   *)
is_dir_excluded_cached(dir_path, exclude_dirs) ==
    \E exclude_dir \in exclude_dirs : IsPrefix(exclude_dir, dir_path)

(* scan_directory_recursive: os.walk from dir_path; a subdirectory is      *)
(* pruned when it is excluded, the files of every directory walked are     *)
(* taken.  dir_path itself is never tested.                                *)
scan_directory_recursive(files, dir_path, exclude_dirs) ==
    {f \in Under(dir_path, files) :
        \A n \in (Len(dir_path) + 1)..(Len(f) - 1) :
            ~is_dir_excluded_cached(SubSeq(f, 1, n), exclude_dirs)}

(* build_file_sets, step 2-3: the directory type of every scanned file *)
files_from_dirs(files, dirs, cfg) ==
    LET include_dirs == expand_directory_patterns(dirs, cfg.include_dirs)
        track_dirs   == expand_directory_patterns(dirs, cfg.track_dirs)
        exclude_dirs == expand_directory_patterns(dirs, cfg.exclude_dirs)
        in_include == UNION {scan_directory_recursive(files, d, exclude_dirs) :
                                d \in include_dirs}
        in_track   == UNION {scan_directory_recursive(files, d, exclude_dirs) :
                                d \in track_dirs}
        overridden == IF cfg.directory_priority = "include" THEN {}
                      ELSE in_include \cap in_track
    IN  [include |-> in_include \ overridden,
         track   |-> (in_track \ in_include) \cup overridden]

(* build_file_sets, step 6: exclude_files applies to directory files only *)
filter_dir_files(dir_files, cfg) ==
    IF cfg.exclude_files # {}
    THEN {f \in dir_files : ~is_file_excluded(f, cfg.exclude_files)}
    ELSE dir_files

(* build_file_sets, step 7: all_files *)
union_all_files(from_include_dirs, from_track_dirs, include_files, track_files) ==
    from_include_dirs \cup from_track_dirs \cup include_files \cup track_files

(* build_file_sets: (all_files, tracked_files) *)
build_file_sets(files, dirs, cfg) ==
    LET from_dirs     == files_from_dirs(files, dirs, cfg)
        include_files == expand_file_patterns(files, cfg.include_files)
        track_files   == expand_file_patterns(files, cfg.track_files) \ include_files
        f_include     == filter_dir_files(from_dirs.include, cfg)
        f_track       == filter_dir_files(from_dirs.track, cfg)
        all           == union_all_files(f_include, f_track, include_files, track_files)
    IN  [all_files     |-> all,
         tracked_files |-> (f_track \cup track_files) \cap all]

-----------------------------------------------------------------------------
(* Pattern expansion and exclusion tests, variant "script"                 *)

(* parse_rec_pattern: (pattern without ":rec", is_rec) *)
parse_rec_pattern(pattern) ==
    IF Len(pattern) > 0 /\ pattern[Len(pattern)] = REC
    THEN [pat |-> SubSeq(pattern, 1, Len(pattern) - 1), is_rec |-> TRUE]
    ELSE [pat |-> pattern, is_rec |-> FALSE]

(* expand_directory_patterns of the script: ":rec" is stripped, every      *)
(* pattern goes through base_path.glob                                     *)
expand_directory_patterns_script(dirs, patterns) ==
    {d \in dirs :
        \E pattern \in patterns :
            GlobSelects(d, parse_rec_pattern(pattern).pat)}

(* preprocess_config: the three directory lists are replaced by the        *)
(* directories they expand to (an empty list is left alone)                *)
preprocess_config(dirs, cfg) ==
    [cfg EXCEPT
        !.include_dirs = IF @ # {} THEN expand_directory_patterns_script(dirs, @) ELSE @,
        !.track_dirs   = IF @ # {} THEN expand_directory_patterns_script(dirs, @) ELSE @,
        !.exclude_dirs = IF @ # {} THEN expand_directory_patterns_script(dirs, @) ELSE @]

(* is_excluded (local to build_mirror_set_with_metadata): the relative     *)
(* parts start with the parts of an excluded directory                     *)
is_excluded(rel_parts, exclude_dirs) ==
    \E ep \in exclude_dirs : IsPrefix(ep, rel_parts)

(* matches_exclude_for_file *)
matches_exclude_for_file(rel_path, pattern) ==
    LET pr == parse_rec_pattern(pattern)
    IN  IF pr.is_rec THEN fnmatch(PathStr(rel_path), pr.pat)
        ELSE IF HasSep(pattern) THEN fnmatch(PathStr(rel_path), pattern)
        ELSE Len(rel_path) = 1 /\ fnmatch(Name(rel_path), pattern)

(* build_mirror_set_with_metadata, the walk of one include/track root: a   *)
(* directory entry is descended into, and a file entry is taken, unless    *)
(* its relative parts are excluded                                         *)
walk_root(files, d, exclude_dirs) ==
    {f \in Under(d, files) :
        /\ \A n \in (Len(d) + 1)..(Len(f) - 1) :
               ~is_excluded(SubSeq(f, 1, n), exclude_dirs)
        /\ ~is_excluded(f, exclude_dirs)}

(* build_mirror_set_with_metadata, the explicit patterns: what a pattern   *)
(* of include_files + track_files selects                                  *)
explicit_matches(files, pattern) ==
    LET pr == parse_rec_pattern(pattern)
    IN  {m \in files :
            IF pr.is_rec THEN RGlobSelects(m, pr.pat)
            ELSE IF HasSep(pattern)
                 THEN LET sp == RSplit(pattern)
                      IN  /\ Len(m) > 1
                          /\ PathStr(Parent(m)) = sp.dir_part
                          /\ fnmatch(Name(m), sp.file_pat)
                 ELSE GlobSelects(m, pr.pat)}

(* build_mirror_set_with_metadata, the exclude_files pass: every           *)
(* non-explicit file an exclude pattern matches is deleted                 *)
(* variation of the exclude_files pass without the explicit-file exemption *)
apply_exclude_files_no_exemption(all, explicit_files, exclude_files) ==
    {f \in all :
        ~\E pat \in exclude_files : matches_exclude_for_file(f, pat)}

apply_exclude_files(all, explicit_files, exclude_files) ==
    {f \in all :
        f \in explicit_files
        \/ ~\E pat \in exclude_files : matches_exclude_for_file(f, pat)}

(* build_mirror_set_with_metadata on a preprocessed configuration.  The    *)
(* roots are walked include_dirs first, track_dirs last, each tagging its  *)
(* files with (d in track_dirs) and overwriting the tag of an earlier      *)
(* root; the explicit patterns are then applied in the order               *)
(* include_files + track_files, each overwriting the tag with              *)
(* (pattern in track_files).                                               *)
build_mirror_set_with_metadata(files, pcfg) ==
    LET roots      == pcfg.include_dirs \cup pcfg.track_dirs
        walked     == UNION {walk_root(files, d, pcfg.exclude_dirs) : d \in roots}
        dir_tracked == UNION {walk_root(files, d, pcfg.exclude_dirs) :
                                 d \in pcfg.track_dirs}
        explicit   == UNION {explicit_matches(files, p) :
                                 p \in pcfg.include_files \cup pcfg.track_files}
        exp_tracked == UNION {explicit_matches(files, p) : p \in pcfg.track_files}
        all        == apply_exclude_files(walked \cup explicit, explicit,
                                          pcfg.exclude_files)
    IN  [all_files     |-> all,
         tracked_files |-> {f \in all : IF f \in explicit THEN f \in exp_tracked
                                                          ELSE f \in dir_tracked}]

(* The classification a run computes *)
classify(v, files, dirs, cfg) ==
    IF v = "axiomatic" THEN build_file_sets(files, dirs, cfg)
    ELSE build_mirror_set_with_metadata(files, preprocess_config(dirs, cfg))

-----------------------------------------------------------------------------
(* Bounds of the model *)
MaxRules  == 3    \* patterns in a configuration drawn for classification
MaxRuns   == 2    \* backup runs in a behaviour
MaxEdits  == 1    \* changes made to the source tree between runs
MaxFaults == 1    \* failing file operations and interruptions in a behaviour

(* abs(a - b) > 1.0 : the tolerance of the mtime comparison, in seconds *)
MtimeTolerance == 1

(* Metadata (st_size, st_mtime) a source file may carry *)
Sizes  == {1, 2}
Mtimes == {0, 1, 2}
Metas  == [size : Sizes, mtime : Mtimes]
NoMeta == [size |-> -1, mtime |-> -1]

(* The files the backup runs work on *)
RunFiles == {F_a, F_x}

NoIno == 0

(* A JSON state file on disk: absent, half-written, or a complete state *)
EmptyState  == <<>>
AbsentFile  == [kind |-> "absent",  state |-> EmptyState]
PartialFile == [kind |-> "partial", state |-> EmptyState]
StateFile(st) == [kind |-> "state", state |-> st]

NoManifest == [written |-> FALSE, catalog |-> <<>>, new_or_changed |-> 0, deleted |-> 0]

EmptyCfg ==
    [include_dirs |-> {}, track_dirs |-> {}, exclude_dirs |-> {},
     include_files |-> {}, track_files |-> {}, exclude_files |-> {},
     directory_priority |-> "track"]

(* The configurations a backup run is started with *)
RunConfigs ==
    { [EmptyCfg EXCEPT !.track_dirs   = {P_notes}, !.include_files = {P_txt}],
      [EmptyCfg EXCEPT !.include_dirs = {P_notes}, !.track_files   = {P_txt}],
      [EmptyCfg EXCEPT !.include_files = {P_txt}],
      [EmptyCfg EXCEPT !.track_dirs   = {P_notes}, !.track_files   = {P_txt}] }

VARIABLES
    variant,        \* which implementation runs: "axiomatic" or "script"
    cfg,            \* the configuration of the current run
    src,            \* source files: path -> metadata, NoMeta when absent
    src_dirs,       \* source directories that exist
    mirror,         \* dst/mirror: path -> inode, NoIno when absent
    mirror_dirs,    \* directories existing at or below dst/mirror (<<>> is the root)
    inodes,         \* inode -> (size, mtime) of the data it holds
    increments,     \* the backup_<timestamp> directories, oldest first
    mirror_json,    \* dst/mirror.json
    tmp_json,       \* dst/mirror.json.tmp
    pc,             \* position of the running process, "idle" between runs
    phase,          \* 1 inside the increment branch, 2 in the trailing mirror update
    mirror_state,   \* self.mirror_state
    all_files,      \* self.all_files
    tracked_files,  \* self.tracked_files
    new_files,      \* new_files (script: new_or_changed_tracked)
    changed_files,  \* changed_files
    deleted_files,  \* deleted_files (script: deleted_tracked)
    mcache,         \* lru_cache of get_file_metadata_cached for mirror paths
                    \* (script: mirror_files_dict)
    todo,           \* files the current loop or pool has still to process
    has_incr,       \* the run has created its backup_<timestamp> directory
    files_added,    \* script: files_added
    can_link,       \* os.link works between mirror and increments (same device)
    copied,         \* history: paths whose copy into the mirror succeeded in this run
    failed,         \* history: paths whose copy into the mirror failed in this run
    saves,          \* history: times mirror.json was replaced in this run
    committed,      \* history: mirror.json as the last completed run left it
    last_tracked,   \* history: the files the last completed run selected as tracked
    prev,           \* history: the configuration of the last completed run,
                    \* whether nothing has changed since (ok), and the new or
                    \* changed tracked files it never managed to copy (failed)
    ops,            \* pool: the copy groups of the run that are still to do
    group,          \* pool: (src, dst) pairs of the current group not yet started
    futures,        \* pool: the submitted tasks as_completed has not yielded yet
    running,        \* pool: the tasks a worker thread is executing
    results,        \* pool: finished tasks with their result, not yet collected
    total_success,  \* pool: the success counter of the run
    success_count,  \* pool: the counter local to copy_files_sequential
    tool_calls,     \* explorer: calls of recreate_metadata made so far
    last_call,      \* explorer: the last call, what it returned and what it built
    config_exists,  \* the configuration file named on the command line exists
    src_root,       \* the source root exists and is a directory
    dst_made,       \* the backup root directory exists
    expanded_config,\* script: dst/config_expanded.json exists
    exit_code,      \* exit code of the last process that ended, NoExit before
    runs, edits, faults

vars == <<variant, cfg, src, src_dirs, mirror, mirror_dirs, inodes, increments, mirror_json,
          tmp_json, pc, phase, mirror_state, all_files, tracked_files, new_files,
          changed_files, deleted_files, mcache, todo, has_incr, files_added, can_link,
          copied, failed, saves, committed, last_tracked, prev, config_exists, src_root,
          dst_made, expanded_config, exit_code, runs, edits, faults,
          ops, group, futures, running, results, total_success, success_count,
          tool_calls, last_call>>

fsVars    == <<mirror, mirror_dirs, inodes, increments>>
jsonVars  == <<mirror_json, tmp_json>>
setVars   == <<mirror_state, all_files, tracked_files, new_files, changed_files,
               deleted_files>>
poolVars  == <<ops, group, futures, running, results, total_success, success_count>>
toolVars  == <<tool_calls, last_call>>
userVars  == <<variant, src, src_dirs, can_link, edits, poolVars, toolVars>>
mainVars  == <<config_exists, src_root, dst_made, expanded_config, exit_code>>
envVars   == <<userVars, mainVars>>

-----------------------------------------------------------------------------
(* The file system under dst *)

Existing(tree) == {f \in DOMAIN tree : tree[f] # NoMeta}

NoFiles == [f \in SrcFiles |-> NoIno]

(* a backup_<timestamp> directory as mkdir leaves it *)
NoIncrement == [track |-> NoFiles, deleted |-> NoFiles,
                track_dir |-> FALSE, deleted_dir |-> FALSE, deleted_dirs |-> {},
                manifest |-> NoManifest]

(* the inodes some name still refers to *)
Referenced(mir, incs) ==
    ({mir[f] : f \in SrcFiles}
        \cup UNION {{incs[i].track[f] : f \in SrcFiles} : i \in 1..Len(incs)}
        \cup UNION {{incs[i].deleted[f] : f \in SrcFiles} : i \in 1..Len(incs)})
    \ {NoIno}

(* an inode table without the inodes no name refers to *)
Collect(tbl, mir, incs) ==
    [i \in (DOMAIN tbl) \cap Referenced(mir, incs) |-> tbl[i]]

FreshIno(tbl) ==
    CHOOSE i \in 1..(Cardinality(DOMAIN tbl) + 1) :
        i \notin DOMAIN tbl /\ \A j \in 1..(i - 1) : j \in DOMAIN tbl

(* shutil.copy2(src, dst): open(dst, "wb") writes into the inode dst       *)
(* already names, or creates one; size and mtime of the source are kept.   *)
(* Result: the inode table and the inode of dst.                           *)
copy2(tbl, dst_ino, meta) ==
    IF dst_ino # NoIno
    THEN [tbl |-> [tbl EXCEPT ![dst_ino] = meta], ino |-> dst_ino]
    ELSE LET n == FreshIno(tbl)
         IN  [tbl |-> [i \in (DOMAIN tbl) \cup {n} |->
                          IF i = n THEN meta ELSE tbl[i]],
              ino |-> n]

(* os.link(src, dst): dst names the inode of src *)
os_link(tbl, src_ino) == [tbl |-> tbl, ino |-> src_ino]

(* create_hardlink_or_copy / hardlink_file: the hardlink, or the copy it   *)
(* falls back to when linking is refused                                   *)
create_hardlink_or_copy(tbl, src_ino, linkable) ==
    IF linkable THEN os_link(tbl, src_ino)
    ELSE copy2(tbl, NoIno, tbl[src_ino])

(* dst.parent.mkdir(parents=True, exist_ok=True) below the mirror root *)
WithParents(dirs, path) ==
    dirs \cup {SubSeq(path, 1, n) : n \in 0..(Len(path) - 1)}

(* stat of a mirror path: (size, mtime) *)
MirrorMeta(mir, tbl, f) == IF mir[f] = NoIno THEN NoMeta ELSE tbl[mir[f]]

-----------------------------------------------------------------------------
(* Change detection and state bookkeeping, variant "axiomatic"             *)

Abs(x) == IF x < 0 THEN -x ELSE x

(* the comparison of get_changes and of the mirror update: sizes differ,   *)
(* or the mtimes differ by more than the tolerance                         *)
metadata_differs(stored, current) ==
    stored.size # current.size
    \/ Abs(stored.mtime - current.mtime) > MtimeTolerance

(* load_mirror_state: the state of mirror.json, empty when the file is     *)
(* missing or cannot be parsed                                             *)
load_mirror_state(file) ==
    IF file.kind = "state" THEN file.state ELSE EmptyState

(* get_changes: (new_files, changed_files, deleted_files) *)
get_changes(state, all, tracked, tree) ==
    LET previous_tracked == {f \in DOMAIN state : state[f].tracked}
        common_files     == tracked \cap previous_tracked
    IN  [deleted |-> previous_tracked \ all,
         new     |-> tracked \ previous_tracked,
         changed |-> {f \in common_files :
                         metadata_differs([size |-> state[f].size,
                                           mtime |-> state[f].mtime], tree[f])}]

(* update_mirror_state: an entry for every file of all_files, with the     *)
(* metadata of the source file                                             *)
(* variation of update_mirror_state that records no file as tracked *)
update_mirror_state_untracked(all, tracked, tree) ==
    [f \in all |-> [size |-> tree[f].size, mtime |-> tree[f].mtime,
                    tracked |-> FALSE]]

update_mirror_state(all, tracked, tree) ==
    [f \in all |-> [size |-> tree[f].size, mtime |-> tree[f].mtime,
                    tracked |-> f \in tracked]]

(* get_file_metadata_cached(mirror_path): the cached answer if there is    *)
(* one, else the stat of the file                                          *)
cached_mirror_meta(cache, mir, tbl, f) ==
    IF cache[f] # NoMeta THEN cache[f] ELSE MirrorMeta(mir, tbl, f)

(* the files the mirror update copies: missing in the mirror, or with      *)
(* metadata (as the cache reports it) that differs from the source         *)
(* variation of the mirror update that copies only the missing files *)
files_to_copy_missing_only(all, tree, cache, mir, tbl) ==
    {f \in all : mir[f] = NoIno}

files_to_copy_to_mirror(all, tree, cache, mir, tbl) ==
    {f \in all :
        mir[f] = NoIno
        \/ metadata_differs(tree[f], cached_mirror_meta(cache, mir, tbl, f))}

(* the cache after that loop: every existing mirror file looked up *)
cache_after_lookup(all, cache, mir, tbl) ==
    [f \in SrcFiles |->
        IF f \in all /\ mir[f] # NoIno
        THEN cached_mirror_meta(cache, mir, tbl, f) ELSE cache[f]]

(* the mirror files of recorded paths that are no longer in all_files *)
files_to_remove_from_mirror(state, all, mir) ==
    {f \in DOMAIN state : mir[f] # NoIno /\ f \notin all}

(* create_increment_metadata: the manifest.  Deleted files are listed with *)
(* the metadata self.mirror_state holds for them at the time of the call.  *)
(* variation of the manifest whose summary counts the changed files only *)
create_increment_metadata_changed_only(state, new, changed, deleted, tree) ==
    [written |-> TRUE,
     catalog |-> [f \in changed |->
                    [size |-> tree[f].size, mtime |-> tree[f].mtime,
                     category |-> "tracked"]],
     new_or_changed |-> Cardinality(changed),
     deleted |-> Cardinality(deleted)]

create_increment_metadata(state, new, changed, deleted, tree) ==
    LET listed == (new \cup changed) \cup (deleted \cap DOMAIN state)
    IN  [written |-> TRUE,
         catalog |-> [f \in listed |->
                        IF f \in new \cup changed
                        THEN [size |-> tree[f].size, mtime |-> tree[f].mtime,
                              category |-> "tracked"]
                        ELSE [size |-> state[f].size, mtime |-> state[f].mtime,
                              category |-> "deleted"]],
         new_or_changed |-> Cardinality(new) + Cardinality(changed),
         deleted |-> Cardinality(deleted)]

-----------------------------------------------------------------------------
(* Initial state and the environment *)

NoCache == [f \in SrcFiles |-> NoMeta]

(* no process has ended yet *)
NoExit == -1

(* the metadata dictionary of recreate_metadata before its loop *)
NoMetadata ==
    [file_catalog |-> <<>>,
     summary |-> [new_or_changed_tracked |-> 0, deleted_tracked |-> 0,
                  total_operations |-> 0],
     statistics |-> [total_files |-> 0]]

(* the explorer has not been called *)
NoCall == [backup |-> 0, force |-> FALSE, returned |-> FALSE, metadata |-> NoMetadata]

(* no completed run to compare the next run with *)
NoPrev == [cfg |-> EmptyCfg, ok |-> FALSE, failed |-> {}]

LocalsReset ==
    /\ cfg' = EmptyCfg
    /\ pc' = "idle"
    /\ phase' = 1
    /\ mirror_state' = EmptyState
    /\ all_files' = {}
    /\ tracked_files' = {}
    /\ new_files' = {}
    /\ changed_files' = {}
    /\ deleted_files' = {}
    /\ mcache' = NoCache
    /\ todo' = {}
    /\ has_incr' = FALSE
    /\ files_added' = FALSE
    /\ copied' = {}
    /\ failed' = {}
    /\ saves' = 0

(* no run is in progress and none has been made in this behaviour *)
InitLocals ==
    /\ variant \in {"axiomatic", "script"}
    /\ tmp_json = AbsentFile
    /\ pc = "idle"
    /\ phase = 1
    /\ mirror_state = EmptyState
    /\ all_files = {}
    /\ tracked_files = {}
    /\ new_files = {}
    /\ changed_files = {}
    /\ deleted_files = {}
    /\ mcache = NoCache
    /\ todo = {}
    /\ has_incr = FALSE
    /\ files_added = FALSE
    /\ copied = {}
    /\ failed = {}
    /\ saves = 0
    /\ last_tracked = {}
    /\ prev = NoPrev
    /\ exit_code = NoExit
    /\ ops = {}
    /\ group = {}
    /\ futures = {}
    /\ running = {}
    /\ results = {}
    /\ total_success = 0
    /\ success_count = 0
    /\ tool_calls = 0
    /\ last_call = NoCall
    /\ runs = 0
    /\ edits = 0
    /\ faults = 0

(* nothing exists under dst *)
InitCommon ==
    /\ InitLocals
    /\ mirror = NoFiles
    /\ mirror_dirs = {}
    /\ inodes = <<>>
    /\ increments = <<>>
    /\ mirror_json = AbsentFile
    /\ committed = AbsentFile
    /\ dst_made = FALSE
    /\ expanded_config = FALSE

Init ==
    /\ InitCommon
    /\ config_exists = TRUE
    /\ src_root = TRUE
    /\ can_link \in BOOLEAN
    /\ cfg = EmptyCfg
    /\ src \in {t \in [SrcFiles -> {NoMeta, [size |-> 1, mtime |-> 0]}] :
                   \A f \in SrcFiles \ RunFiles : t[f] = NoMeta}
    /\ src_dirs = ParentDirs(RunFiles)

(* the user creates, rewrites, touches or deletes a source file between runs *)
EditSource(f, m) ==
    /\ pc = "idle"
    /\ edits < MaxEdits
    /\ src[f] # m
    /\ src' = [src EXCEPT ![f] = m]
    /\ src_dirs' = IF m = NoMeta THEN src_dirs ELSE src_dirs \cup ParentDirs({f})
    /\ edits' = edits + 1
    /\ UNCHANGED <<variant, can_link, poolVars, toolVars, cfg, fsVars, jsonVars, pc, phase, setVars,
                   mcache, todo, has_incr, files_added, copied, failed, saves, committed, last_tracked, runs, faults>>
    /\ prev' = [prev EXCEPT !.ok = FALSE]
    /\ UNCHANGED mainVars

(* the user removes a source directory that holds nothing *)
RemoveSourceDir(d) ==
    /\ pc = "idle"
    /\ edits < MaxEdits
    /\ d \in src_dirs
    /\ Under(d, Existing(src)) = {}
    /\ ~\E e \in src_dirs : IsPrefix(d, e) /\ e # d
    /\ src_dirs' = src_dirs \ {d}
    /\ edits' = edits + 1
    /\ UNCHANGED <<variant, can_link, poolVars, toolVars, src, cfg, fsVars, jsonVars, pc, phase, setVars,
                   mcache, todo, has_incr, files_added, copied, failed, saves, committed, last_tracked, runs, faults>>
    /\ prev' = [prev EXCEPT !.ok = FALSE]
    /\ UNCHANGED mainVars

-----------------------------------------------------------------------------
(* A run of AxiomaticBackupSystem.execute_backup                           *)

CurIncr == Len(increments)

(* __init__ (load_mirror_state), build_file_sets, the early return on an   *)
(* empty selection, mkdir of the mirror, get_changes, and the mkdir of the *)
(* increment directory with its deleted/ subdirectory                      *)
A_Start(c) ==
    /\ variant = "axiomatic"
    /\ pc = "idle"
    /\ config_exists /\ src_root
    /\ runs < MaxRuns
    /\ runs' = runs + 1
    /\ dst_made' = TRUE
    /\ LET st  == load_mirror_state(mirror_json)
           cl  == classify(variant, Existing(src), src_dirs, c)
           ch  == get_changes(st, cl.all_files, cl.tracked_files, src)
       IN  IF cl.all_files = {}
           THEN /\ LocalsReset
                /\ committed' = mirror_json
                /\ last_tracked' = {}
                /\ prev' = [cfg |-> c, ok |-> TRUE, failed |-> {}]
                /\ exit_code' = 0
                /\ UNCHANGED <<fsVars>>
           ELSE /\ cfg' = c
                /\ mirror_state' = st
                /\ all_files' = cl.all_files
                /\ tracked_files' = cl.tracked_files
                /\ new_files' = ch.new
                /\ changed_files' = ch.changed
                /\ deleted_files' = ch.deleted
                /\ mirror_dirs' = mirror_dirs \cup {<<>>}
                /\ IF ch.new \cup ch.changed \cup ch.deleted # {}
                   THEN /\ increments' = Append(increments,
                              [NoIncrement EXCEPT !.deleted_dir = (ch.deleted # {})])
                        /\ has_incr' = TRUE
                        /\ pc' = "capture"
                        /\ todo' = ch.deleted
                   ELSE /\ UNCHANGED <<increments, has_incr>>
                        /\ pc' = "sync"
                        /\ todo' = {}
                /\ UNCHANGED <<mirror, inodes, phase, mcache, files_added, copied, failed,
                               saves, committed, last_tracked, prev, exit_code>>
    /\ UNCHANGED <<userVars, config_exists, src_root, expanded_config, jsonVars, faults>>

(* step 1, one deleted tracked file: hardlink (or copy) mirror -> deleted/ *)
A_CaptureDeleted(f) ==
    /\ variant = "axiomatic" /\ pc = "capture" /\ f \in todo
    /\ todo' = todo \ {f}
    /\ \/ /\ mirror[f] # NoIno
          /\ LET r == create_hardlink_or_copy(inodes, mirror[f], can_link)
             IN  /\ inodes' = r.tbl
                 /\ increments' = [increments EXCEPT ![CurIncr].deleted[f] = r.ino]
          /\ UNCHANGED faults
       \/ /\ mirror[f] # NoIno         \* neither the link nor the copy succeeds
          /\ faults < MaxFaults
          /\ faults' = faults + 1
          /\ UNCHANGED <<inodes, increments>>
       \/ /\ mirror[f] = NoIno
          /\ UNCHANGED <<inodes, increments, faults>>
    /\ UNCHANGED <<envVars, cfg, mirror, mirror_dirs, jsonVars, pc, phase, setVars,
                   mcache, has_incr, files_added, copied, failed, saves, committed, last_tracked, prev, runs>>

(* step 2, the list of mirror files to remove *)
A_BeginRemove ==
    /\ variant = "axiomatic" /\ pc = "capture" /\ todo = {}
    /\ pc' = "remove"
    /\ todo' = files_to_remove_from_mirror(mirror_state, all_files, mirror)
    /\ UNCHANGED <<envVars, cfg, fsVars, jsonVars, phase, setVars, mcache, has_incr, files_added,
                   copied, failed, saves, committed, last_tracked, prev, runs, faults>>

(* step 2, one unlink *)
A_Unlink(f) ==
    /\ variant = "axiomatic" /\ pc = "remove" /\ f \in todo
    /\ todo' = todo \ {f}
    /\ \/ /\ mirror' = [mirror EXCEPT ![f] = NoIno]
          /\ inodes' = Collect(inodes, mirror', increments)
          /\ UNCHANGED faults
       \/ /\ faults < MaxFaults
          /\ faults' = faults + 1
          /\ UNCHANGED <<mirror, inodes>>
    /\ UNCHANGED <<envVars, cfg, mirror_dirs, increments, jsonVars, pc, phase, setVars,
                   mcache, has_incr, files_added, copied, failed, saves, committed, last_tracked, prev, runs>>

(* step 3, the copies are chosen and submitted to the pool *)
A_SubmitCopies ==
    /\ variant = "axiomatic" /\ pc = "remove" /\ todo = {}
    /\ pc' = "copy"
    /\ todo' = files_to_copy_to_mirror(all_files, src, mcache, mirror, inodes)
    /\ mcache' = cache_after_lookup(all_files, mcache, mirror, inodes)
    /\ UNCHANGED <<envVars, cfg, fsVars, jsonVars, phase, setVars, has_incr, files_added,
                   copied, failed, saves, committed, last_tracked, prev, runs, faults>>

(* variation of the copy task in which a failed copy raises out of the run *)
CopyTask_raising(f) ==
    /\ pc \in {"copy", "update"} /\ f \in todo
    /\ todo' = todo \ {f}
    /\ \/ /\ LET r == copy2(inodes, mirror[f], src[f])
             IN  /\ inodes' = r.tbl
                 /\ mirror' = [mirror EXCEPT ![f] = r.ino]
          /\ mirror_dirs' = WithParents(mirror_dirs, f)
          /\ copied' = copied \cup {f}
          /\ failed' = failed
          /\ pc' = pc
          /\ UNCHANGED faults
       \/ /\ faults < MaxFaults
          /\ faults' = faults + 1
          /\ failed' = failed \cup {f}
          /\ pc' = "raised"
          /\ UNCHANGED <<mirror, inodes, mirror_dirs, copied>>
       \/ /\ f \in failed
          /\ pc' = "raised"
          /\ UNCHANGED <<faults, failed, mirror, inodes, mirror_dirs, copied>>
    /\ UNCHANGED <<envVars, cfg, increments, jsonVars, phase, setVars, mcache,
                   has_incr, files_added, saves, committed, last_tracked, prev, runs>>

(* safe_copy / copy_file run by a pool worker, or by the sequential loop *)
CopyTask(f) ==
    /\ pc \in {"copy", "update"} /\ f \in todo
    /\ todo' = todo \ {f}
    /\ \/ /\ LET r == copy2(inodes, mirror[f], src[f])
             IN  /\ inodes' = r.tbl
                 /\ mirror' = [mirror EXCEPT ![f] = r.ino]
          /\ mirror_dirs' = WithParents(mirror_dirs, f)
          /\ copied' = copied \cup {f}
          /\ failed' = failed
          /\ UNCHANGED faults
       \/ /\ faults < MaxFaults
          /\ faults' = faults + 1
          /\ failed' = failed \cup {f}
          /\ UNCHANGED <<mirror, inodes, mirror_dirs, copied>>
       \/ /\ f \in failed                  \* the copy that failed earlier in
          /\ UNCHANGED <<faults, failed,    \* this run fails again
                         mirror, inodes, mirror_dirs, copied>>
    /\ UNCHANGED <<envVars, cfg, increments, jsonVars, pc, phase, setVars, mcache,
                   has_incr, files_added, saves, committed, last_tracked, prev, runs>>

(* step 4, the pool has drained; mkdir of track/ *)
A_BeginLink ==
    /\ variant = "axiomatic" /\ pc = "copy" /\ todo = {}
    /\ pc' = "link"
    /\ todo' = new_files \cup changed_files
    /\ increments' = [increments EXCEPT
                         ![CurIncr].track_dir = (new_files \cup changed_files # {})]
    /\ UNCHANGED <<envVars, cfg, mirror, mirror_dirs, inodes, jsonVars, phase, setVars,
                   mcache, has_incr, files_added, copied, failed, saves, committed, last_tracked, prev, runs, faults>>

(* step 4, one new or changed tracked file: hardlink (or copy) mirror -> track/ *)
A_LinkTracked(f) ==
    /\ variant = "axiomatic" /\ pc = "link" /\ f \in todo
    /\ todo' = todo \ {f}
    /\ \/ /\ mirror[f] # NoIno
          /\ LET r == create_hardlink_or_copy(inodes, mirror[f], can_link)
             IN  /\ inodes' = r.tbl
                 /\ increments' = [increments EXCEPT ![CurIncr].track[f] = r.ino]
          /\ UNCHANGED faults
       \/ /\ mirror[f] # NoIno
          /\ faults < MaxFaults
          /\ faults' = faults + 1
          /\ UNCHANGED <<inodes, increments>>
       \/ /\ mirror[f] = NoIno
          /\ UNCHANGED <<inodes, increments, faults>>
    /\ UNCHANGED <<envVars, cfg, mirror, mirror_dirs, jsonVars, pc, phase, setVars,
                   mcache, has_incr, files_added, copied, failed, saves, committed, last_tracked, prev, runs>>

(* "if not any(backup_dir.iterdir())" *)
IncrementIsEmpty(inc) ==
    /\ ~inc.track_dir
    /\ ~inc.deleted_dir
    /\ ~inc.manifest.written

(* step 5: an empty increment directory is removed; otherwise the state is *)
(* updated and its save begins                                             *)
A_Finalize ==
    /\ variant = "axiomatic" /\ pc = "link" /\ todo = {}
    /\ IF IncrementIsEmpty(increments[CurIncr])
       THEN /\ increments' = SubSeq(increments, 1, CurIncr - 1)
            /\ has_incr' = FALSE
            /\ pc' = "sync"
            /\ UNCHANGED mirror_state
       ELSE /\ mirror_state' = update_mirror_state(all_files, tracked_files, src)
            /\ pc' = "save_open"
            /\ UNCHANGED <<increments, has_incr>>
    /\ UNCHANGED <<envVars, cfg, mirror, mirror_dirs, inodes, jsonVars, phase,
                   all_files, tracked_files, new_files, changed_files, deleted_files,
                   mcache, todo, files_added, copied, failed, saves, committed, last_tracked, prev, runs, faults>>

-----------------------------------------------------------------------------
(* save_mirror_state: mirror.json.tmp is opened, written, and renamed over *)
(* mirror.json; any exception removes the temporary file                   *)

AfterSave == IF phase = 1 THEN "manifest" ELSE "return"

(* open(temp_file, "w"): the state files after the open; the temporary     *)
(* file exists and is empty, mirror.json is not touched                    *)
(* variation of the save that opens the canonical file itself for writing  *)
open_canonical_file(json, tmp) == [json |-> PartialFile, tmp |-> tmp]

open_temp_file(json, tmp) == [json |-> json, tmp |-> PartialFile]

(* json.dump into the open temporary file *)
dump_state(json, tmp, state) == [json |-> json, tmp |-> StateFile(state)]

(* temp_file.replace(mirror_file): one atomic rename *)
replace_mirror_file(json, tmp) == [json |-> tmp, tmp |-> AbsentFile]

Save_Open ==
    /\ pc = "save_open"
    /\ LET r == open_temp_file(mirror_json, tmp_json)
       IN  mirror_json' = r.json /\ tmp_json' = r.tmp
    /\ pc' = "save_dump"
    /\ UNCHANGED <<envVars, cfg, fsVars, phase, setVars, mcache, todo, has_incr, files_added,
                   copied, failed, saves, committed, last_tracked, prev, runs, faults>>

Save_Dump ==
    /\ pc = "save_dump"
    /\ LET r == dump_state(mirror_json, tmp_json, mirror_state)
       IN  mirror_json' = r.json /\ tmp_json' = r.tmp
    /\ pc' = "save_replace"
    /\ UNCHANGED <<envVars, cfg, fsVars, phase, setVars, mcache, todo, has_incr, files_added,
                   copied, failed, saves, committed, last_tracked, prev, runs, faults>>

Save_Replace ==
    /\ pc = "save_replace"
    /\ LET r == replace_mirror_file(mirror_json, tmp_json)
       IN  mirror_json' = r.json /\ tmp_json' = r.tmp
    /\ saves' = saves + 1
    /\ pc' = AfterSave
    /\ UNCHANGED <<envVars, cfg, fsVars, phase, setVars, mcache, todo, has_incr, files_added,
                   copied, failed, committed, last_tracked, prev, runs, faults>>

(* the open, the dump or the rename raises: the except branch unlinks the  *)
(* temporary file if it exists and the run goes on                         *)
Save_Fail ==
    /\ pc \in {"save_open", "save_dump", "save_replace"}
    /\ faults < MaxFaults
    /\ faults' = faults + 1
    /\ tmp_json' = AbsentFile
    /\ pc' = AfterSave
    /\ UNCHANGED <<envVars, cfg, fsVars, mirror_json, phase, setVars, mcache, todo,
                   has_incr, files_added, copied, failed, saves, committed, last_tracked, prev, runs>>

(* create_increment_metadata after the first save; a failed write is logged *)
A_Manifest ==
    /\ variant = "axiomatic" /\ pc = "manifest"
    /\ \/ /\ increments' = [increments EXCEPT ![CurIncr].manifest =
                 create_increment_metadata(mirror_state, new_files, changed_files,
                                           deleted_files, src)]
          /\ UNCHANGED faults
       \/ /\ faults < MaxFaults
          /\ faults' = faults + 1
          /\ UNCHANGED increments
    /\ pc' = "sync"
    /\ UNCHANGED <<envVars, cfg, mirror, mirror_dirs, inodes, jsonVars, phase, setVars,
                   mcache, todo, has_incr, files_added, copied, failed, saves, committed, last_tracked, prev, runs>>

(* the trailing mirror update: files_to_update, submitted to a second pool *)
A_SubmitUpdates ==
    /\ variant = "axiomatic" /\ pc = "sync"
    /\ LET upd == files_to_copy_to_mirror(all_files, src, mcache, mirror, inodes)
       IN  /\ todo' = upd
           /\ pc' = IF upd = {} THEN "return" ELSE "update"
    /\ mcache' = cache_after_lookup(all_files, mcache, mirror, inodes)
    /\ phase' = 2
    /\ UNCHANGED <<envVars, cfg, fsVars, jsonVars, setVars, has_incr, files_added, copied, failed, saves,
                   committed, last_tracked, prev, runs, faults>>

(* the second pool has drained: update_mirror_state, then save_mirror_state *)
A_AfterUpdates ==
    /\ variant = "axiomatic" /\ pc = "update" /\ todo = {}
    /\ mirror_state' = update_mirror_state(all_files, tracked_files, src)
    /\ pc' = "save_open"
    /\ UNCHANGED <<envVars, cfg, fsVars, jsonVars, phase, all_files, tracked_files,
                   new_files, changed_files, deleted_files, mcache, todo, has_incr, files_added,
                   copied, failed, saves, committed, last_tracked, prev, runs, faults>>

(* execute_backup returns its statistics; the process ends *)
A_Return ==
    /\ variant = "axiomatic" /\ pc = "return"
    /\ LocalsReset
    /\ committed' = mirror_json
    /\ last_tracked' = tracked_files
    /\ prev' = [cfg |-> cfg, ok |-> TRUE,
                 failed |-> (failed \ copied) \cap (new_files \cup changed_files)]
    /\ exit_code' = 0
    /\ UNCHANGED <<userVars, config_exists, src_root, dst_made, expanded_config,
                   fsVars, jsonVars, runs, faults>>

(* the process is killed in the middle of a run: the disk stays as it is *)
Interrupt ==
    /\ pc # "idle"
    /\ faults < MaxFaults
    /\ faults' = faults + 1
    /\ LocalsReset
    /\ prev' = NoPrev
    /\ UNCHANGED <<envVars, fsVars, jsonVars, committed, last_tracked, runs>>

-----------------------------------------------------------------------------
(* A run of the script's backup()                                          *)

(* src_candidate.exists() *)
src_exists(rel) == rel \in Existing(src) \/ rel \in src_dirs

(* rel_under_tracked_dir *)
rel_under_tracked_dir(rel, track_dirs) ==
    \E td \in track_dirs : IsPrefix(td, rel)

(* rel_matches_track_files *)
rel_matches_track_files(rel, track_files) ==
    \E pattern \in track_files :
        LET pr == parse_rec_pattern(pattern)
        IN  IF pr.is_rec THEN fnmatch(PathStr(rel), pr.pat)
            ELSE IF HasSep(pattern) THEN fnmatch(PathStr(rel), pattern)
            ELSE Len(rel) = 1 /\ fnmatch(Name(rel), pattern)

(* scan_mirror_with_metadata: mirror_files_dict *)
scan_mirror_with_metadata(mir, tbl) ==
    [f \in SrcFiles |-> MirrorMeta(mir, tbl, f)]

(* new_or_changed_tracked: no mirror file, or (size, mtime) not equal *)
new_or_changed_tracked(tracked, tree, mirror_files_dict) ==
    {f \in tracked : mirror_files_dict[f] = NoMeta \/ tree[f] # mirror_files_dict[f]}

(* deleted_tracked: mirror files and mirror directories with nothing at    *)
(* their path in the source, which the tracking rules cover                *)
deleted_tracked(mirror_files_dict, mdirs, tracked, pcfg) ==
    {rel \in SrcFiles :
        /\ mirror_files_dict[rel] # NoMeta
        /\ ~src_exists(rel)
        /\ \/ rel \in tracked
           \/ rel_under_tracked_dir(rel, pcfg.track_dirs)
           \/ rel_matches_track_files(rel, pcfg.track_files)}
    \cup {rel \in mdirs \ {<<>>} :
            ~src_exists(rel) /\ rel_under_tracked_dir(rel, pcfg.track_dirs)}

(* files_to_update: the files not handled as new or changed tracked files  *)
(* whose metadata differs from what the mirror scan found                  *)
files_to_update(all, handled, tree, mirror_files_dict) ==
    {f \in all \ handled : mirror_files_dict[f] # tree[f]}

(* files_to_remove: scanned mirror files that are not in the source set *)
files_to_remove(mirror_files_dict, all) ==
    {rel \in SrcFiles : mirror_files_dict[rel] # NoMeta /\ rel \notin all}

(* remove_empty_dirs of the script: bottom-up, every directory below the   *)
(* root that holds nothing is removed                                      *)
remove_empty_dirs_script(mdirs, mir) ==
    {d \in mdirs : d = <<>> \/ \E f \in SrcFiles : mir[f] # NoIno /\ IsPrefix(d, f)}

(* create_increment_metadata of the script *)
create_increment_metadata_script(new_changed, deleted, tree) ==
    [written |-> TRUE,
     catalog |-> [f \in new_changed \cup deleted |->
                    IF f \in new_changed
                    THEN [size |-> tree[f].size, mtime |-> tree[f].mtime,
                          category |-> "new_changed_sample"]
                    ELSE [size |-> -1, mtime |-> -1, category |-> "deleted"]],
     new_or_changed |-> Cardinality(new_changed),
     deleted |-> Cardinality(deleted)]

RunPaths == RunFiles \cup ParentDirs(RunFiles)

(* preprocess_config, mkdir of the mirror, the scans of source and mirror, *)
(* the change sets, and the mkdir of the increment directory               *)
B_Start(c) ==
    /\ variant = "script"
    /\ pc = "idle"
    /\ config_exists /\ src_root
    /\ runs < MaxRuns
    /\ runs' = runs + 1
    /\ dst_made' = TRUE
    /\ expanded_config' = TRUE
    /\ LET pcfg == preprocess_config(src_dirs, c)
           cl   == build_mirror_set_with_metadata(Existing(src), pcfg)
           mfd  == scan_mirror_with_metadata(mirror, inodes)
           noc  == new_or_changed_tracked(cl.tracked_files, src, mfd)
           del  == deleted_tracked(mfd, mirror_dirs, cl.tracked_files, pcfg)
       IN  /\ cfg' = pcfg
           /\ all_files' = cl.all_files
           /\ tracked_files' = cl.tracked_files
           /\ new_files' = noc
           /\ deleted_files' = del
           /\ mcache' = mfd
           /\ mirror_dirs' = mirror_dirs \cup {<<>>}
           /\ IF noc \cup del # {}
              THEN /\ increments' = Append(increments, NoIncrement)
                   /\ has_incr' = TRUE
                   /\ pc' = "b_capture"
                   /\ todo' = del
              ELSE /\ UNCHANGED <<increments, has_incr>>
                   /\ pc' = "update"
                   /\ todo' = files_to_update(cl.all_files, noc, src, mfd)
    /\ UNCHANGED <<userVars, config_exists, src_root, exit_code, mirror, inodes, jsonVars,
                   phase, mirror_state, changed_files, files_added, copied, failed, saves,
                   committed, last_tracked, prev, faults>>

(* one deleted tracked path: a file is hardlinked (or copied) from the     *)
(* mirror into deleted/, a directory is recreated there                    *)
B_CaptureDeleted(rel) ==
    /\ variant = "script" /\ pc = "b_capture" /\ rel \in todo
    /\ todo' = todo \ {rel}
    /\ \/ /\ rel \in SrcFiles /\ mirror[rel] # NoIno
          /\ LET r == create_hardlink_or_copy(inodes, mirror[rel], can_link)
             IN  /\ inodes' = r.tbl
                 /\ increments' = [increments EXCEPT ![CurIncr].deleted[rel] = r.ino,
                                                     ![CurIncr].deleted_dir = TRUE]
          /\ files_added' = TRUE
          /\ UNCHANGED faults
       \/ /\ rel \in SrcFiles /\ mirror[rel] # NoIno
          /\ faults < MaxFaults
          /\ faults' = faults + 1
          /\ increments' = [increments EXCEPT ![CurIncr].deleted_dir = TRUE]
          /\ UNCHANGED <<inodes, files_added>>
       \/ /\ ~(rel \in SrcFiles /\ mirror[rel] # NoIno)
          /\ rel \in mirror_dirs
          /\ increments' = [increments EXCEPT
                 ![CurIncr].deleted_dirs = @ \cup {rel},
                 ![CurIncr].deleted_dir = TRUE]
          /\ files_added' = TRUE
          /\ UNCHANGED <<inodes, faults>>
       \/ /\ ~(rel \in SrcFiles /\ mirror[rel] # NoIno)
          /\ rel \notin mirror_dirs
          /\ UNCHANGED <<inodes, increments, files_added, faults>>
    /\ UNCHANGED <<envVars, cfg, mirror, mirror_dirs, jsonVars, pc, phase, setVars,
                   mcache, has_incr, copied, failed, saves, committed, last_tracked, prev, runs>>

B_BeginTracked ==
    /\ variant = "script" /\ pc = "b_capture" /\ todo = {}
    /\ pc' = "b_track"
    /\ todo' = new_files
    /\ UNCHANGED <<envVars, cfg, fsVars, jsonVars, phase, setVars, mcache, has_incr,
                   files_added, copied, failed, saves, committed, last_tracked, prev, runs, faults>>

(* one new or changed tracked file: copy_file into the mirror and, if that *)
(* succeeded, hardlink_file of the mirror file into track/                 *)
B_CopyLinkTracked(f) ==
    /\ variant = "script" /\ pc = "b_track" /\ f \in todo
    /\ todo' = todo \ {f}
    /\ \/ /\ LET c == copy2(inodes, mirror[f], src[f])
                 r == create_hardlink_or_copy(c.tbl, c.ino, can_link)
             IN  /\ inodes' = r.tbl
                 /\ mirror' = [mirror EXCEPT ![f] = c.ino]
                 /\ increments' = [increments EXCEPT ![CurIncr].track[f] = r.ino,
                                                     ![CurIncr].track_dir = TRUE]
          /\ mirror_dirs' = WithParents(mirror_dirs, f)
          /\ copied' = copied \cup {f}
          /\ failed' = failed
          /\ files_added' = TRUE
          /\ UNCHANGED faults
       \/ /\ faults < MaxFaults             \* the copy succeeds, the link and
          /\ faults' = faults + 1           \* its fallback copy fail
          /\ LET c == copy2(inodes, mirror[f], src[f])
             IN  /\ inodes' = c.tbl
                 /\ mirror' = [mirror EXCEPT ![f] = c.ino]
          /\ increments' = [increments EXCEPT ![CurIncr].track_dir = TRUE]
          /\ mirror_dirs' = WithParents(mirror_dirs, f)
          /\ copied' = copied \cup {f}
          /\ failed' = failed
          /\ UNCHANGED files_added
       \/ /\ faults < MaxFaults             \* the copy fails
          /\ faults' = faults + 1
          /\ failed' = failed \cup {f}
          /\ UNCHANGED <<mirror, inodes, increments, mirror_dirs, copied, files_added>>
    /\ UNCHANGED <<envVars, cfg, jsonVars, pc, phase, setVars, mcache, has_incr,
                   saves, committed, last_tracked, prev, runs>>

(* the manifest is written when something was added or deleted_tracked is  *)
(* not empty, else the increment directory is removed; then the mirror     *)
(* update is grouped and started                                           *)
B_Finalize ==
    /\ variant = "script" /\ pc = "b_track" /\ todo = {}
    /\ \/ /\ files_added \/ deleted_files # {}
          /\ increments' = [increments EXCEPT ![CurIncr].manifest =
                 create_increment_metadata_script(new_files, deleted_files, src)]
          /\ UNCHANGED <<has_incr, faults>>
       \/ /\ files_added \/ deleted_files # {}
          /\ faults < MaxFaults             \* the write of the manifest fails
          /\ faults' = faults + 1
          /\ UNCHANGED <<increments, has_incr>>
       \/ /\ ~(files_added \/ deleted_files # {})
          /\ increments' = SubSeq(increments, 1, CurIncr - 1)
          /\ has_incr' = FALSE
          /\ UNCHANGED faults
    /\ pc' = "update"
    /\ todo' = files_to_update(all_files, new_files, src, mcache)
    /\ UNCHANGED <<envVars, cfg, mirror, mirror_dirs, inodes, jsonVars, phase, setVars,
                   mcache, files_added, copied, failed, saves, committed, last_tracked, prev, runs>>

(* every copy group is done: the list of mirror files to remove *)
B_BeginCleanup ==
    /\ variant = "script" /\ pc = "update" /\ todo = {}
    /\ pc' = "b_cleanup"
    /\ todo' = files_to_remove(mcache, all_files)
    /\ UNCHANGED <<envVars, cfg, fsVars, jsonVars, phase, setVars, mcache, has_incr,
                   files_added, copied, failed, saves, committed, last_tracked, prev, runs, faults>>

(* one "if f.exists(): f.unlink()" *)
B_Unlink(f) ==
    /\ variant = "script" /\ pc = "b_cleanup" /\ f \in todo
    /\ todo' = todo \ {f}
    /\ \/ /\ mirror' = [mirror EXCEPT ![f] = NoIno]
          /\ inodes' = Collect(inodes, mirror', increments)
          /\ UNCHANGED faults
       \/ /\ mirror[f] # NoIno
          /\ faults < MaxFaults
          /\ faults' = faults + 1
          /\ UNCHANGED <<mirror, inodes>>
    /\ UNCHANGED <<envVars, cfg, mirror_dirs, increments, jsonVars, pc, phase, setVars,
                   mcache, has_incr, files_added, copied, failed, saves, committed, last_tracked, prev, runs>>

(* remove_empty_dirs(mirror_path), the summary, and the end of the process *)
B_Return ==
    /\ variant = "script" /\ pc = "b_cleanup" /\ todo = {}
    /\ mirror_dirs' = remove_empty_dirs_script(mirror_dirs, mirror)
    /\ LocalsReset
    /\ committed' = mirror_json
    /\ last_tracked' = tracked_files
    /\ prev' = [cfg |-> cfg, ok |-> TRUE,
                 failed |-> (failed \ copied) \cap (new_files \cup changed_files)]
    /\ exit_code' = 0
    /\ UNCHANGED <<userVars, config_exists, src_root, dst_made, expanded_config,
                   mirror, inodes, increments, jsonVars, runs, faults>>

-----------------------------------------------------------------------------
Next ==
    \/ \E f \in RunFiles, m \in Metas \cup {NoMeta} : EditSource(f, m)
    \/ \E d \in ParentDirs(RunFiles) : RemoveSourceDir(d)
    \/ \E c \in RunConfigs : A_Start(c)
    \/ \E f \in RunFiles : A_CaptureDeleted(f)
    \/ A_BeginRemove
    \/ \E f \in RunFiles : A_Unlink(f)
    \/ A_SubmitCopies
    \/ \E f \in RunFiles : CopyTask(f)
    \/ A_BeginLink
    \/ \E f \in RunFiles : A_LinkTracked(f)
    \/ A_Finalize
    \/ Save_Open
    \/ Save_Dump
    \/ Save_Replace
    \/ Save_Fail
    \/ A_Manifest
    \/ A_SubmitUpdates
    \/ A_AfterUpdates
    \/ A_Return
    \/ \E c \in RunConfigs : B_Start(c)
    \/ \E rel \in RunPaths : B_CaptureDeleted(rel)
    \/ B_BeginTracked
    \/ \E f \in RunFiles : B_CopyLinkTracked(f)
    \/ B_Finalize
    \/ B_BeginCleanup
    \/ \E f \in RunFiles : B_Unlink(f)
    \/ B_Return
    \/ Interrupt

Spec == Init /\ [][Next]_vars

(* the steps of a run in progress: the process runs its statements one     *)
(* after the other and the pool runs every task submitted to it            *)
RunStep ==
    \/ \E f \in RunFiles : A_CaptureDeleted(f)
    \/ A_BeginRemove
    \/ \E f \in RunFiles : A_Unlink(f)
    \/ A_SubmitCopies
    \/ \E f \in RunFiles : CopyTask(f)
    \/ A_BeginLink
    \/ \E f \in RunFiles : A_LinkTracked(f)
    \/ A_Finalize
    \/ Save_Open
    \/ Save_Dump
    \/ Save_Replace
    \/ Save_Fail
    \/ A_Manifest
    \/ A_SubmitUpdates
    \/ A_AfterUpdates
    \/ A_Return
    \/ \E rel \in RunPaths : B_CaptureDeleted(rel)
    \/ B_BeginTracked
    \/ \E f \in RunFiles : B_CopyLinkTracked(f)
    \/ B_Finalize
    \/ B_BeginCleanup
    \/ \E f \in RunFiles : B_Unlink(f)
    \/ B_Return

(* the same behaviours, with a process that is not killed going on until   *)
(* it returns                                                              *)
SpecLive == Init /\ [][Next]_vars /\ WF_vars(RunStep)

-----------------------------------------------------------------------------
(* The program from its command line: setup errors and --dry-run           *)

(* the history and the locals of a run, which no setup step touches *)
histVars == <<copied, failed, saves, committed, last_tracked, prev>>
runVars  == <<cfg, pc, phase, setVars, mcache, todo, has_incr, files_added>>

(* class, load_config: the configuration file is missing; a default one is *)
(* written and the process leaves through sys.exit(0)                      *)
A_NoConfig ==
    /\ variant = "axiomatic" /\ pc = "idle"
    /\ ~config_exists
    /\ runs < MaxRuns
    /\ runs' = runs + 1
    /\ config_exists' = TRUE
    /\ exit_code' = 0
    /\ UNCHANGED <<userVars, src_root, dst_made, expanded_config, fsVars, jsonVars,
                   runVars, histVars, faults>>

(* class, BackupConfig.__post_init__: the source root is missing; the      *)
(* ValueError is raised before dst.mkdir, main logs it and exits with 1    *)
A_NoSource ==
    /\ variant = "axiomatic" /\ pc = "idle"
    /\ config_exists /\ ~src_root
    /\ runs < MaxRuns
    /\ runs' = runs + 1
    /\ exit_code' = 1
    /\ UNCHANGED <<userVars, config_exists, src_root, dst_made, expanded_config, fsVars,
                   jsonVars, runVars, histVars, faults>>

(* class, main with --dry-run: load_config (BackupConfig.__post_init__     *)
(* makes the backup root), AxiomaticBackupSystem(cfg) reads mirror.json,   *)
(* build_file_sets, two log lines, return                                  *)
A_DryRun(c) ==
    /\ variant = "axiomatic" /\ pc = "idle"
    /\ config_exists /\ src_root
    /\ runs < MaxRuns
    /\ runs' = runs + 1
    /\ dst_made' = TRUE
    /\ exit_code' = 0
    /\ UNCHANGED <<userVars, config_exists, src_root, expanded_config, fsVars, jsonVars,
                   runVars, histVars, faults>>

(* script, __main__ and preprocess_config: the configuration file is       *)
(* missing, sys.exit(1)                                                    *)
B_NoConfig ==
    /\ variant = "script" /\ pc = "idle"
    /\ ~config_exists
    /\ runs < MaxRuns
    /\ runs' = runs + 1
    /\ exit_code' = 1
    /\ UNCHANGED <<userVars, config_exists, src_root, dst_made, expanded_config, fsVars,
                   jsonVars, runVars, histVars, faults>>

(* script, backup: the source root is missing, sys.exit(1) before the      *)
(* mkdir of the mirror                                                     *)
B_NoSource ==
    /\ variant = "script" /\ pc = "idle"
    /\ config_exists /\ ~src_root
    /\ runs < MaxRuns
    /\ runs' = runs + 1
    /\ exit_code' = 1
    /\ UNCHANGED <<userVars, config_exists, src_root, dst_made, expanded_config, fsVars,
                   jsonVars, runVars, histVars, faults>>

(* script with dry_run: preprocess_config, the scans and the change sets;  *)
(* the mkdir of the mirror, the write of config_expanded.json and the      *)
(* mkdir of the increment directory are only logged                        *)
B_DryStart(c) ==
    /\ variant = "script" /\ pc = "idle"
    /\ config_exists /\ src_root
    /\ runs < MaxRuns
    /\ runs' = runs + 1
    /\ LET pcfg == preprocess_config(src_dirs, c)
           cl   == build_mirror_set_with_metadata(Existing(src), pcfg)
           mfd  == scan_mirror_with_metadata(mirror, inodes)
           noc  == new_or_changed_tracked(cl.tracked_files, src, mfd)
           del  == deleted_tracked(mfd, mirror_dirs, cl.tracked_files, pcfg)
       IN  /\ cfg' = pcfg
           /\ all_files' = cl.all_files
           /\ tracked_files' = cl.tracked_files
           /\ new_files' = noc
           /\ deleted_files' = del
           /\ mcache' = mfd
           /\ IF noc \cup del # {}
              THEN /\ pc' = "d_capture"
                   /\ todo' = del
              ELSE /\ pc' = "d_update"
                   /\ todo' = files_to_update(cl.all_files, noc, src, mfd)
    /\ UNCHANGED <<userVars, mainVars, fsVars, jsonVars, phase, mirror_state, changed_files,
                   has_incr, files_added, histVars, faults>>

(* dry_run, one deleted tracked path: hardlink_file only logs and returns  *)
(* True for a mirror file, the mkdir for a mirror directory is only logged *)
B_DryCaptureDeleted(rel) ==
    /\ variant = "script" /\ pc = "d_capture" /\ rel \in todo
    /\ todo' = todo \ {rel}
    /\ files_added' = (files_added \/ (rel \in SrcFiles /\ mirror[rel] # NoIno)
                                   \/ rel \in mirror_dirs)
    /\ UNCHANGED <<envVars, cfg, fsVars, jsonVars, pc, phase, setVars, mcache, has_incr,
                   histVars, runs, faults>>

B_DryBeginTracked ==
    /\ variant = "script" /\ pc = "d_capture" /\ todo = {}
    /\ pc' = "d_track"
    /\ todo' = new_files
    /\ UNCHANGED <<envVars, cfg, fsVars, jsonVars, phase, setVars, mcache, has_incr,
                   files_added, histVars, runs, faults>>

(* dry_run, one new or changed tracked file: copy_file and hardlink_file   *)
(* log and return True                                                     *)
B_DryCopyLinkTracked(f) ==
    /\ variant = "script" /\ pc = "d_track" /\ f \in todo
    /\ todo' = todo \ {f}
    /\ files_added' = TRUE
    /\ UNCHANGED <<envVars, cfg, fsVars, jsonVars, pc, phase, setVars, mcache, has_incr,
                   histVars, runs, faults>>

(* dry_run: create_increment_metadata logs the manifest and writes         *)
(* nothing, the removal of an empty increment directory is only logged     *)
B_DryFinalize ==
    /\ variant = "script" /\ pc = "d_track" /\ todo = {}
    /\ pc' = "d_update"
    /\ todo' = files_to_update(all_files, new_files, src, mcache)
    /\ UNCHANGED <<envVars, cfg, fsVars, jsonVars, phase, setVars, mcache, has_incr,
                   files_added, histVars, runs, faults>>

(* dry_run, copy_file of one file of the mirror update: a log line *)
B_DryCopyTask(f) ==
    /\ variant = "script" /\ pc = "d_update" /\ f \in todo
    /\ todo' = todo \ {f}
    /\ UNCHANGED <<envVars, cfg, fsVars, jsonVars, pc, phase, setVars, mcache, has_incr,
                   files_added, histVars, runs, faults>>

B_DryBeginCleanup ==
    /\ variant = "script" /\ pc = "d_update" /\ todo = {}
    /\ pc' = "d_cleanup"
    /\ todo' = files_to_remove(mcache, all_files)
    /\ UNCHANGED <<envVars, cfg, fsVars, jsonVars, phase, setVars, mcache, has_incr,
                   files_added, histVars, runs, faults>>

(* dry_run, one mirror file to remove: "would remove" is logged *)
B_DryUnlink(f) ==
    /\ variant = "script" /\ pc = "d_cleanup" /\ f \in todo
    /\ todo' = todo \ {f}
    /\ UNCHANGED <<envVars, cfg, fsVars, jsonVars, pc, phase, setVars, mcache, has_incr,
                   files_added, histVars, runs, faults>>

(* dry_run: remove_empty_dirs is only logged; the summary; the process     *)
(* ends                                                                    *)
B_DryReturn ==
    /\ variant = "script" /\ pc = "d_cleanup" /\ todo = {}
    /\ LocalsReset
    /\ exit_code' = 0
    /\ UNCHANGED <<userVars, config_exists, src_root, dst_made, expanded_config, fsVars,
                   jsonVars, committed, last_tracked, prev, runs, faults>>

(* the state before the first command: the configuration file and the      *)
(* source root may be missing                                              *)
InitMain ==
    /\ InitCommon
    /\ config_exists \in BOOLEAN
    /\ src_root \in BOOLEAN
    /\ can_link \in BOOLEAN
    /\ cfg = EmptyCfg
    /\ src \in {t \in [SrcFiles -> {NoMeta, [size |-> 1, mtime |-> 0]}] :
                   \A f \in SrcFiles \ RunFiles : t[f] = NoMeta}
    /\ src_dirs = ParentDirs(RunFiles)

NextMain ==
    \/ Next
    \/ A_NoConfig
    \/ A_NoSource
    \/ \E c \in RunConfigs : A_DryRun(c)
    \/ B_NoConfig
    \/ B_NoSource
    \/ \E c \in RunConfigs : B_DryStart(c)
    \/ \E rel \in RunPaths : B_DryCaptureDeleted(rel)
    \/ B_DryBeginTracked
    \/ \E f \in RunFiles : B_DryCopyLinkTracked(f)
    \/ B_DryFinalize
    \/ \E f \in RunFiles : B_DryCopyTask(f)
    \/ B_DryBeginCleanup
    \/ \E f \in RunFiles : B_DryUnlink(f)
    \/ B_DryReturn

SpecMain == InitMain /\ [][NextMain]_vars

-----------------------------------------------------------------------------
(* The copy pool, thread by thread: the thread of the run submits the      *)
(* (src, dst) pairs and collects the results, the worker threads of the    *)
(* executor run one copy each                                              *)

MaxWorkers == 2    \* max_workers of the configuration

(* the values of max_files_per_dir a run is started with; 50 is the default *)
MaxFilesPerDirChoices == {1, 50}

(* src_path, and mirror_path = dst / "mirror" *)
SrcPath    == <<<<"source", "">>>>
MirrorPath == <<<<"backup", "">>, <<"mirror", "">>>>

(* Path.relative_to(root) *)
relative_to(path, root) == SubSeq(path, Len(root) + 1, Len(path))

(* Path.parent *)
parent(path) == SubSeq(path, 1, Len(path) - 1)

(* (src_file, mirror_path / src_file.relative_to(src_path)) *)
copy_pair(f) ==
    LET src_file == SrcPath \o f
    IN  [src |-> src_file, dst |-> MirrorPath \o relative_to(src_file, SrcPath)]

(* optimize_copy_operations: the pairs grouped by the directory of dst; a  *)
(* group larger than max_files_per_dir is copied sequentially              *)
optimize_copy_operations(pairs, max_files_per_dir) ==
    LET dir_groups == {{t \in pairs : parent(t.dst) = d} : d \in {parent(t.dst) : t \in pairs}}
    IN  {[type  |-> IF Cardinality(g) > max_files_per_dir
                    THEN "sequential" ELSE "parallel",
          group |-> g] : g \in dir_groups}

(* the one pool of the class: every pair of files_to_copy_to_mirror *)
single_pool(pairs) ==
    IF pairs = {} THEN {} ELSE {[type |-> "parallel", group |-> pairs]}

(* the rules of the runs whose pool is followed: every file is selected,   *)
(* none is tracked                                                         *)
PoolConfig == [EmptyCfg EXCEPT !.include_dirs = {P_notes}, !.include_files = {P_txt}]

notPoolVars == <<variant, src, src_dirs, can_link, edits, toolVars, mainVars, cfg, increments,
                 jsonVars, phase, setVars, mcache, todo, has_incr, files_added,
                 copied, failed, saves, committed, last_tracked, prev>>

(* the run reaches its mirror update: the pairs are chosen and grouped *)
P_Begin(m) ==
    /\ pc = "idle"
    /\ runs < MaxRuns
    /\ runs' = runs + 1
    /\ LET cl  == classify(variant, Existing(src), src_dirs, PoolConfig)
           mfd == scan_mirror_with_metadata(mirror, inodes)
           upd == IF variant = "axiomatic"
                  THEN files_to_copy_to_mirror(cl.all_files, src, NoCache, mirror, inodes)
                  ELSE files_to_update(cl.all_files,
                           new_or_changed_tracked(cl.tracked_files, src, mfd), src, mfd)
           pairs == {copy_pair(f) : f \in upd}
       IN  ops' = IF variant = "axiomatic"
                  THEN single_pool(pairs)
                  ELSE optimize_copy_operations(pairs, m)
    /\ total_success' = 0
    /\ mirror_dirs' = mirror_dirs \cup {<<>>}
    /\ pc' = "p_ops"
    /\ UNCHANGED <<notPoolVars, mirror, inodes, faults,
                   group, futures, running, results, success_count>>

(* copy_file(src, dst) by whichever thread runs it: the mirror after a     *)
(* copy that succeeded                                                     *)
copy_file_done(t) ==
    LET f == relative_to(t.dst, MirrorPath)
        r == copy2(inodes, mirror[f], src[relative_to(t.src, SrcPath)])
    IN  [mirror |-> [mirror EXCEPT ![f] = r.ino], inodes |-> r.tbl,
         mirror_dirs |-> WithParents(mirror_dirs, f)]

(* a group of more than max_files_per_dir files: copy_files_sequential *)
P_BeginSequential(op) ==
    /\ pc = "p_ops" /\ op \in ops /\ op.type = "sequential"
    /\ ops' = ops \ {op}
    /\ group' = op.group
    /\ success_count' = 0
    /\ pc' = "p_seq"
    /\ UNCHANGED <<notPoolVars, fsVars, runs, faults, futures, running, results,
                   total_success>>

P_SeqCopy(t) ==
    /\ pc = "p_seq" /\ t \in group
    /\ group' = group \ {t}
    /\ \/ /\ LET d == copy_file_done(t)
             IN  mirror' = d.mirror /\ inodes' = d.inodes /\ mirror_dirs' = d.mirror_dirs
          /\ success_count' = success_count + 1
          /\ UNCHANGED faults
       \/ /\ faults < MaxFaults
          /\ faults' = faults + 1
          /\ UNCHANGED <<mirror, inodes, mirror_dirs, success_count>>
    /\ UNCHANGED <<notPoolVars, increments, pc, runs, ops, futures, running, results,
                   total_success>>

(* "total_success += copy_files_sequential(group)" *)
P_EndSequential ==
    /\ pc = "p_seq" /\ group = {}
    /\ total_success' = total_success + success_count
    /\ pc' = "p_ops"
    /\ UNCHANGED <<notPoolVars, fsVars, runs, faults, ops, group, futures, running,
                   results, success_count>>

(* "with ThreadPoolExecutor(...) as exe" for the next group *)
P_OpenPool(op) ==
    /\ pc = "p_ops" /\ op \in ops /\ op.type = "parallel"
    /\ ops' = ops \ {op}
    /\ group' = op.group
    /\ pc' = "p_pool"
    /\ UNCHANGED <<notPoolVars, fsVars, runs, faults, futures, running, results,
                   total_success, success_count>>

(* the dictionary comprehension: exe.submit(copy_file, src, dst) *)
P_Submit(t) ==
    /\ pc = "p_pool" /\ t \in group
    /\ group' = group \ {t}
    /\ futures' = futures \cup {t}
    /\ UNCHANGED <<notPoolVars, fsVars, pc, runs, faults, ops, running, results,
                   total_success, success_count>>

(* an idle worker thread takes a submitted task *)
P_WorkerStart(t) ==
    /\ t \in futures \ running
    /\ ~\E r \in results : r.task = t
    /\ Cardinality(running) < MaxWorkers
    /\ running' = running \cup {t}
    /\ UNCHANGED <<notPoolVars, fsVars, pc, runs, faults, ops, group, futures, results,
                   total_success, success_count>>

(* variation of the worker in which the worker thread counts its success *)
P_WorkerCopy_counting(t) ==
    /\ t \in running
    /\ running' = running \ {t}
    /\ \/ /\ LET d == copy_file_done(t)
             IN  mirror' = d.mirror /\ inodes' = d.inodes /\ mirror_dirs' = d.mirror_dirs
          /\ results' = results \cup {[task |-> t, ok |-> TRUE]}
          /\ total_success' = total_success + 1
          /\ UNCHANGED faults
       \/ /\ faults < MaxFaults
          /\ faults' = faults + 1
          /\ results' = results \cup {[task |-> t, ok |-> FALSE]}
          /\ UNCHANGED <<mirror, inodes, mirror_dirs, total_success>>
    /\ UNCHANGED <<notPoolVars, increments, pc, runs, ops, group, futures,
                   success_count>>

(* the worker thread runs copy_file and stores its return value in the     *)
(* future                                                                  *)
P_WorkerCopy(t) ==
    /\ t \in running
    /\ running' = running \ {t}
    /\ \/ /\ LET d == copy_file_done(t)
             IN  mirror' = d.mirror /\ inodes' = d.inodes /\ mirror_dirs' = d.mirror_dirs
          /\ results' = results \cup {[task |-> t, ok |-> TRUE]}
          /\ UNCHANGED faults
       \/ /\ faults < MaxFaults
          /\ faults' = faults + 1
          /\ results' = results \cup {[task |-> t, ok |-> FALSE]}
          /\ UNCHANGED <<mirror, inodes, mirror_dirs>>
    /\ UNCHANGED <<notPoolVars, increments, pc, runs, ops, group, futures,
                   total_success, success_count>>

(* one turn of "for future in as_completed(futures)" in the thread of the  *)
(* run: the script counts a result that is true, the class only logs       *)
P_Collect(r) ==
    /\ pc = "p_pool" /\ group = {}
    /\ r \in results
    /\ results' = results \ {r}
    /\ futures' = futures \ {r.task}
    /\ total_success' = IF variant = "script" /\ r.ok
                        THEN total_success + 1 ELSE total_success
    /\ UNCHANGED <<notPoolVars, fsVars, pc, runs, faults, ops, group, running,
                   success_count>>

(* the end of the with block *)
P_ClosePool ==
    /\ pc = "p_pool" /\ group = {} /\ futures = {}
    /\ pc' = "p_ops"
    /\ UNCHANGED <<notPoolVars, fsVars, runs, faults, poolVars>>

(* no group is left: the run goes on to its end *)
P_End ==
    /\ pc = "p_ops" /\ ops = {}
    /\ pc' = "idle"
    /\ UNCHANGED <<notPoolVars, fsVars, runs, faults, poolVars>>

InitPool ==
    /\ InitCommon
    /\ config_exists = TRUE
    /\ src_root = TRUE
    /\ can_link = TRUE
    /\ cfg = EmptyCfg
    /\ src \in [SrcFiles -> {NoMeta, [size |-> 1, mtime |-> 0]}]
    /\ src_dirs = ParentDirs(SrcFiles)

(* every pair, group and result a run can form *)
AllPairs   == {copy_pair(f) : f \in SrcFiles}
AllOps     == [type : {"sequential", "parallel"}, group : SUBSET AllPairs \ {{}}]
AllResults == [task : AllPairs, ok : BOOLEAN]

NextPool ==
    \/ \E m \in MaxFilesPerDirChoices : P_Begin(m)
    \/ \E op \in AllOps : P_BeginSequential(op)
    \/ \E t \in AllPairs : P_SeqCopy(t)
    \/ P_EndSequential
    \/ \E op \in AllOps : P_OpenPool(op)
    \/ \E t \in AllPairs : P_Submit(t)
    \/ \E t \in AllPairs : P_WorkerStart(t)
    \/ \E t \in AllPairs : P_WorkerCopy(t)
    \/ \E r \in AllResults : P_Collect(r)
    \/ P_ClosePool
    \/ P_End

SpecPool == InitPool /\ [][NextPool]_vars

-----------------------------------------------------------------------------
(* The explorer's recreate_metadata over one increment directory           *)

MaxCalls == 2    \* calls of recreate_metadata in a behaviour

(* a file below track/ or deleted/ of an increment *)
AllDiskFiles == [category : {"track", "deleted"}, path : SrcFiles]

(* "for category in [track, deleted]: category_dir.rglob('*')", the files *)
FilesOnDisk(inc) ==
    {e \in AllDiskFiles :
        IF e.category = "track" THEN inc.track[e.path] # NoIno
                                ELSE inc.deleted[e.path] # NoIno}

(* variation of the scan that looks below track/ only *)
scanned_files_track_only(inc) == {e \in FilesOnDisk(inc) : e.category = "track"}

(* the files the scan of recreate_metadata visits *)
scanned_files(inc) == FilesOnDisk(inc)

(* the metadata dictionary recreate_metadata builds: the catalog is keyed  *)
(* by the path relative to the category directory, deleted/ is scanned     *)
(* after track/, and a file whose processing raised is skipped             *)
recreate_metadata_dict(inc, tbl, raised) ==
    LET processed == scanned_files(inc) \ raised
        rels == {e.path : e \in processed}
        file_catalog ==
            [f \in rels |->
                IF [category |-> "deleted", path |-> f] \in processed
                THEN [size |-> tbl[inc.deleted[f]].size,
                      mtime |-> tbl[inc.deleted[f]].mtime, category |-> "deleted"]
                ELSE [size |-> tbl[inc.track[f]].size,
                      mtime |-> tbl[inc.track[f]].mtime, category |-> "track"]]
        track_count   == Cardinality({f \in rels : file_catalog[f].category = "track"})
        deleted_count == Cardinality({f \in rels : file_catalog[f].category = "deleted"})
    IN  [file_catalog |-> file_catalog,
         summary |-> [new_or_changed_tracked |-> track_count,
                      deleted_tracked |-> deleted_count,
                      total_operations |-> track_count + deleted_count],
         statistics |-> [total_files |-> Cardinality(processed)]]

(* json.dump(metadata) into backup_<ts>.json: the manifest file after it *)
dumped_manifest(md) ==
    [written |-> TRUE, catalog |-> md.file_catalog,
     new_or_changed |-> md.summary.new_or_changed_tracked,
     deleted |-> md.summary.deleted_tracked]

notToolVars == <<variant, src, src_dirs, can_link, edits, poolVars, mainVars, cfg,
                 mirror, mirror_dirs, inodes, jsonVars, pc, phase, setVars, mcache,
                 todo, has_incr, files_added, copied, failed, saves, committed,
                 last_tracked, prev, runs>>

(* recreate_metadata(backup_path, force); raised holds the files whose     *)
(* processing raises inside the loop                                       *)
T_Recreate(i, force, raised) ==
    /\ pc = "idle"
    /\ tool_calls < MaxCalls
    /\ i \in 1..Len(increments)
    /\ tool_calls' = tool_calls + 1
    /\ IF increments[i].manifest.written /\ ~force
       THEN /\ raised = {}
            /\ last_call' = [backup |-> i, force |-> force, returned |-> FALSE,
                             metadata |-> NoMetadata]
            /\ UNCHANGED <<increments, faults>>
       ELSE /\ raised \subseteq scanned_files(increments[i])
            /\ faults + Cardinality(raised) <= MaxFaults
            /\ LET md == recreate_metadata_dict(increments[i], inodes, raised)
               IN  \/ /\ increments' = [increments EXCEPT
                                           ![i].manifest = dumped_manifest(md)]
                      /\ faults' = faults + Cardinality(raised)
                      /\ last_call' = [backup |-> i, force |-> force,
                                       returned |-> TRUE, metadata |-> md]
                   \/ /\ faults + Cardinality(raised) < MaxFaults
                      /\ faults' = faults + Cardinality(raised) + 1
                      /\ \/ UNCHANGED increments          \* open raises
                         \/ increments' = [increments EXCEPT \* the dump raises
                                              ![i].manifest = NoManifest]
                      /\ last_call' = [backup |-> i, force |-> force,
                                       returned |-> FALSE, metadata |-> md]
    /\ UNCHANGED notToolVars

(* a fixed inode number for each file of an increment *)
FileIndex(f) == CHOOSE k \in 1..4 : <<F_a, F_b, F_x, F_y>>[k] = f

(* one increment as a run of the implementation left it: the files T under *)
(* track/, hardlinked to the mirror, the files D under deleted/, and the   *)
(* manifest of the run or, when its write failed, none                     *)
InitTool ==
    /\ InitLocals
    /\ config_exists = TRUE
    /\ src_root = TRUE
    /\ can_link = TRUE
    /\ cfg = EmptyCfg
    /\ dst_made = TRUE
    /\ expanded_config = (variant = "script")
    /\ \E T \in SUBSET SrcFiles, D \in SUBSET SrcFiles, has_manifest \in BOOLEAN :
          LET meta  == [size |-> 1, mtime |-> 0]
              tree  == [f \in SrcFiles |-> IF f \in T THEN meta ELSE NoMeta]
              state == [f \in D |-> [size |-> 1, mtime |-> 0, tracked |-> TRUE]]
          IN  /\ T \cap D = {}
              /\ T \cup D # {}
              /\ src = tree
              /\ src_dirs = ParentDirs(T)
              /\ mirror = [f \in SrcFiles |-> IF f \in T THEN FileIndex(f) ELSE NoIno]
              /\ mirror_dirs = {<<>>} \cup ParentDirs(T)
              /\ inodes = [k \in {FileIndex(f) : f \in T \cup D} |-> meta]
              /\ mirror_json = IF variant = "axiomatic"
                               THEN StateFile(update_mirror_state(T, T, tree))
                               ELSE AbsentFile
              /\ committed = mirror_json
              /\ increments =
                    <<[track |-> [f \in SrcFiles |->
                                     IF f \in T THEN FileIndex(f) ELSE NoIno],
                       deleted |-> [f \in SrcFiles |->
                                     IF f \in D THEN FileIndex(f) ELSE NoIno],
                       track_dir |-> (T # {}),
                       deleted_dir |-> (D # {}),
                       deleted_dirs |-> {},
                       manifest |->
                          IF ~has_manifest THEN NoManifest
                          ELSE IF variant = "axiomatic"
                          THEN create_increment_metadata(state, T, {}, D, tree)
                          ELSE create_increment_metadata_script(T, D, tree)]>>

NextTool ==
    \E i \in 1..MaxRuns, force \in BOOLEAN,
       raised \in {r \in SUBSET AllDiskFiles : Cardinality(r) <= MaxFaults} :
        T_Recreate(i, force, raised)

SpecTool == InitTool /\ [][NextTool]_vars

-----------------------------------------------------------------------------
(* Claims about runs (checked under Spec)                                  *)

(* (size, mtime) of the data an increment entry names; NoMeta for no entry *)
EntryMeta(tbl, ino) == IF ino = NoIno THEN NoMeta ELSE tbl[ino]

(* the run that made increment i has finished writing it: the manifest,   *)
(* which both implementations write last, is there                         *)
Finalized(i) == increments[i].manifest.written

(* the tracked paths of the state the run started from *)
PrevTracked(f) ==
    IF variant = "axiomatic"
    THEN LET st == load_mirror_state(mirror_json)
         IN  f \in DOMAIN st /\ st[f].tracked
    ELSE f \in last_tracked

(* C1 (as claimed): no step changes the size or content of a track/ or     *)
(* deleted/ entry of an increment that a run has finished writing.         *)
C1_IncrementsImmutable ==
    [][\A i \in 1..Len(increments) :
          Finalized(i) =>
              /\ i <= Len(increments')
              /\ \A f \in SrcFiles :
                    /\ EntryMeta(inodes', increments'[i].track[f])
                          = EntryMeta(inodes, increments[i].track[f])
                    /\ EntryMeta(inodes', increments'[i].deleted[f])
                          = EntryMeta(inodes, increments[i].deleted[f])]_vars

(* C2 (as claimed): a step that unlinks from the mirror a file the         *)
(* previous state recorded as tracked finds that file already present      *)
(* under deleted/ of the increment of the run.                             *)
C2_DeletedCapturedBeforeUnlink ==
    [][\A f \in SrcFiles :
          (mirror[f] # NoIno /\ mirror'[f] = NoIno /\ PrevTracked(f))
              => (has_incr /\ increments[CurIncr].deleted[f] # NoIno)]_vars

(* C3 (as claimed): a step that creates a track/ entry for a file does so  *)
(* only when the copy of that file into the mirror has succeeded in the    *)
(* same run, or the mirror file needed no refresh (its size and mtime do   *)
(* not differ from the source file's); no entry comes from a mirror file   *)
(* the run failed to refresh.                                              *)
C3_TrackAfterMirrorCopy ==
    [][\A f \in SrcFiles :
          (/\ has_incr /\ has_incr'
           /\ Len(increments') = Len(increments)
           /\ increments[CurIncr].track[f] = NoIno
           /\ increments'[CurIncr].track[f] # NoIno)
              => \/ f \in copied'
                 \/ ~metadata_differs(src[f], MirrorMeta(mirror, inodes, f))]_vars

SavePcs == {"save_open", "save_dump", "save_replace"}

(* C4: mirror.json never holds a partial state; during save_mirror_state   *)
(* it changes only by the rename, and then to the complete new state; a    *)
(* save that fails or is killed at any step leaves mirror.json as it was.  *)
C4_SaveIsAtomic ==
    [][/\ mirror_json.kind # "partial"
       /\ mirror_json'.kind # "partial"
       /\ mirror_json' # mirror_json
             => /\ pc = "save_replace"
                /\ mirror_json' = StateFile(mirror_state)
       /\ (pc \in SavePcs /\ faults' = faults + 1)
             => mirror_json' = mirror_json]_vars

(* C4 witness: a save is under way, the temporary file is partly written,  *)
(* and mirror.json holds the complete state of an earlier save.            *)
C4_Witness ==
    /\ pc = "save_dump"
    /\ tmp_json.kind = "partial"
    /\ mirror_json.kind = "state"
    /\ mirror_json # StateFile(mirror_state)

(* C5 (as claimed): when a run is killed before its last step, mirror.json *)
(* is what the last completed run left.                                    *)
C5_InterruptKeepsCommittedState ==
    [][(Interrupt /\ pc # "return") => mirror_json' = committed']_vars

(* C6 (as claimed): a run replaces mirror.json at most once, and once it   *)
(* has done so it copies nothing more into the mirror and removes nothing  *)
(* more from it.                                                           *)
C6_StateWrittenOnceAtEnd ==
    [][/\ saves' <= 1
       /\ (saves >= 1 /\ pc # "idle" /\ pc' # "idle")
             => /\ mirror' = mirror
                /\ \A f \in SrcFiles :
                      MirrorMeta(mirror', inodes', f) = MirrorMeta(mirror, inodes, f)]_vars

-----------------------------------------------------------------------------
(* Classification as a function of the rule set and the source tree:       *)
(* every rule set of at most MaxRules patterns, every tree over SrcFiles   *)

RuleLists == {"include_dirs", "track_dirs", "exclude_dirs",
              "include_files", "track_files", "exclude_files"}

Rules == ({"include_dirs", "track_dirs", "exclude_dirs"} \X DirPatterns)
             \cup ({"include_files", "track_files", "exclude_files"} \X FilePatterns)

CfgOf(rs, prio) ==
    [include_dirs  |-> {r[2] : r \in {q \in rs : q[1] = "include_dirs"}},
     track_dirs    |-> {r[2] : r \in {q \in rs : q[1] = "track_dirs"}},
     exclude_dirs  |-> {r[2] : r \in {q \in rs : q[1] = "exclude_dirs"}},
     include_files |-> {r[2] : r \in {q \in rs : q[1] = "include_files"}},
     track_files   |-> {r[2] : r \in {q \in rs : q[1] = "track_files"}},
     exclude_files |-> {r[2] : r \in {q \in rs : q[1] = "exclude_files"}},
     directory_priority |-> prio]

InitClassify ==
    /\ InitCommon
    /\ config_exists = TRUE
    /\ src_root = TRUE
    /\ can_link = TRUE
    /\ \E rs \in {r \in SUBSET Rules : Cardinality(r) <= MaxRules},
          prio \in {"track", "include"} :
            cfg = CfgOf(rs, prio)
    /\ src \in [SrcFiles -> {NoMeta, [size |-> 1, mtime |-> 0]}]
    /\ src_dirs = ParentDirs(Existing(src))

(* build_file_sets / build_mirror_set_with_metadata on the drawn input *)
Classify ==
    /\ pc = "idle"
    /\ LET cl == classify(variant, Existing(src), src_dirs, cfg)
       IN  /\ all_files' = cl.all_files
           /\ tracked_files' = cl.tracked_files
    /\ pc' = "classified"
    /\ UNCHANGED <<envVars, cfg, fsVars, jsonVars, phase, mirror_state, new_files,
                   changed_files, deleted_files, mcache, todo, has_incr, files_added,
                   copied, failed, saves, committed, last_tracked, prev, runs, faults>>

NextClassify == Classify

SpecClassify == InitClassify /\ [][NextClassify]_vars

-----------------------------------------------------------------------------
(* Claims about classification (checked under SpecClassify)                *)

(* a file pattern of include_files / track_files selects the file: glob at *)
(* the pattern's location, rglob at any depth for ":rec"                   *)
PatternSelects(f, pattern) ==
    LET pp == parse_pattern_cached(pattern)
    IN  IF pp.is_rec THEN RGlobSelects(f, pp.pat) ELSE GlobSelects(f, pp.pat)

IsExplicit(f) ==
    \E pattern \in cfg.include_files \cup cfg.track_files : PatternSelects(f, pattern)

(* the exclude_files test as the running variant applies it *)
ExcludePatternHits(f) ==
    IF variant = "axiomatic"
    THEN is_file_excluded(f, cfg.exclude_files)
    ELSE \E pat \in cfg.exclude_files : matches_exclude_for_file(f, pat)

IncludeRoots == expand_directory_patterns(src_dirs, cfg.include_dirs)
TrackRoots   == expand_directory_patterns(src_dirs, cfg.track_dirs)
ExcludeRoots == expand_directory_patterns(src_dirs, cfg.exclude_dirs)

UnderSome(f, roots) == \E d \in roots : IsPrefix(d, f) /\ d # f

(* C7: every existing file that an include_files or track_files pattern    *)
(* selects is in the classification result, whatever exclude_files holds   *)
(* and whether or not a directory walk found the file too.                 *)
C7_ExplicitFilesKept ==
    pc = "classified" =>
        \A f \in Existing(src) : IsExplicit(f) => f \in all_files

(* C7 witness: an explicit file that an exclude_files pattern hits and     *)
(* that lies under an include or track root is classified.                 *)
C7_Witness ==
    /\ pc = "classified"
    /\ \E f \in all_files :
          /\ IsExplicit(f)
          /\ ExcludePatternHits(f)
          /\ UnderSome(f, IncludeRoots \cup TrackRoots)

(* C8 (as claimed): every classified file that no explicit pattern selects *)
(* lies under an include or track root, under no excluded directory, and   *)
(* is hit by no exclude_files pattern.                                     *)
C8_DirFilesRespectExcludes ==
    pc = "classified" =>
        \A f \in all_files :
            ~IsExplicit(f) =>
                /\ UnderSome(f, IncludeRoots \cup TrackRoots)
                /\ ~UnderSome(f, ExcludeRoots)
                /\ ~ExcludePatternHits(f)

(* C9 (as claimed): a classified, directory-sourced file lying under both  *)
(* an include root and a track root, and under no excluded directory, is   *)
(* tracked exactly when directory_priority is "track".                     *)
C9_DirectoryPriorityDecides ==
    pc = "classified" =>
        \A f \in all_files :
            (/\ ~IsExplicit(f)
             /\ UnderSome(f, IncludeRoots)
             /\ UnderSome(f, TrackRoots)
             /\ ~UnderSome(f, ExcludeRoots))
                => (f \in tracked_files <=> cfg.directory_priority = "track")

(* C10 (as claimed): with exclude_dirs = ["notes/drafts"] and              *)
(* include_files = ["*.txt"], notes/drafts/x.txt is classified.            *)
C10_ScenarioD_AsClaimed ==
    (/\ pc = "classified"
     /\ cfg.exclude_dirs = {P_drafts}
     /\ cfg.include_files = {P_txt}
     /\ F_x \in Existing(src))
        => F_x \in all_files

(* C10 (amended): a file under an excluded directory that an include_files *)
(* pattern selects is classified; notes/drafts/x.txt is selected by        *)
(* "*.txt:rec" and by "notes/drafts/*.txt", while "*.txt" selects only     *)
(* files directly in the source root and, with no other include or track   *)
(* rule, leaves notes/drafts/x.txt out.                                    *)
C10_ExplicitOverridesExcludedDir ==
    pc = "classified" =>
        /\ \A f \in Existing(src) :
              (/\ UnderSome(f, ExcludeRoots)
               /\ \E pattern \in cfg.include_files : PatternSelects(f, pattern))
                  => f \in all_files
        /\ (/\ cfg.exclude_dirs = {P_drafts}
            /\ cfg.include_files \cap {P_txt_rec, P_drafts_txt} # {}
            /\ F_x \in Existing(src))
               => F_x \in all_files
        /\ (/\ cfg.exclude_dirs = {P_drafts}
            /\ cfg.include_files = {P_txt}
            /\ cfg.track_files = {}
            /\ cfg.include_dirs = {}
            /\ cfg.track_dirs = {})
               => F_x \notin all_files

(* C10 witness: notes/drafts is excluded, "*.txt:rec" is an include_files  *)
(* pattern, and notes/drafts/x.txt is classified.                          *)
C10_Witness ==
    /\ pc = "classified"
    /\ cfg.exclude_dirs = {P_drafts}
    /\ P_txt_rec \in cfg.include_files
    /\ F_x \in all_files

(* an exclude_files pattern hits the file at the pattern's own location:   *)
(* a ":rec" pattern against the whole relative path, any other pattern     *)
(* as a glob resolved from the source root                                 *)
HitsAtLocation(f, pattern) ==
    LET pp == parse_pattern_cached(pattern)
    IN  IF pp.is_rec THEN fnmatch(PathStr(f), pp.pat) ELSE GlobSelects(f, pp.pat)

(* C11 (as claimed): a file found by a directory walk (under an include or *)
(* track root, under no excluded directory) stays in the classification    *)
(* result unless an exclude_files pattern hits it at the pattern's literal *)
(* location; a pattern without ":rec" removes no file of a deeper          *)
(* directory.                                                              *)
C11_NonRecExcludeIsLocal ==
    pc = "classified" =>
        \A f \in Existing(src) :
            (/\ UnderSome(f, IncludeRoots \cup TrackRoots)
             /\ ~UnderSome(f, ExcludeRoots)
             /\ ~\E pattern \in cfg.exclude_files : HitsAtLocation(f, pattern))
                => f \in all_files

-----------------------------------------------------------------------------
(* Claims about change detection (checked under Spec)                      *)

(* a run starts and goes on past its setup: the change sets are computed   *)
StartStep == pc = "idle" /\ pc' # "idle"

(* what the run that starts has on record for path f: the entry of the     *)
(* loaded mirror_state, or for the script the metadata of the mirror file  *)
RecordedMeta(f) ==
    IF variant = "axiomatic"
    THEN IF f \in DOMAIN mirror_state'
         THEN [size |-> mirror_state'[f].size, mtime |-> mirror_state'[f].mtime]
         ELSE NoMeta
    ELSE mcache'[f]

(* the record marks path f as tracked *)
RecordedTracked(f) ==
    IF variant = "axiomatic"
    THEN f \in DOMAIN mirror_state' /\ mirror_state'[f].tracked
    ELSE f \in last_tracked /\ mirror[f] # NoIno

(* the paths the run reports as changed (the script keeps one set for new  *)
(* and changed files)                                                      *)
ReportedChanged == IF variant = "axiomatic" THEN changed_files' ELSE new_files'

(* C12 (as claimed): the new set of get_changes is exactly the set of      *)
(* currently tracked paths without any entry in mirror_state.              *)
C12_NewIsAbsentFromState ==
    [][(StartStep /\ variant = "axiomatic")
          => new_files' = {f \in tracked_files' : f \notin DOMAIN mirror_state'}]_vars

(* C13 (as claimed): a tracked path that the record holds as tracked is    *)
(* reported as changed exactly when its size differs from the recorded     *)
(* size or its mtime differs from the recorded mtime by more than the      *)
(* tolerance of one second.                                                *)
C13_ChangedIffBeyondTolerance ==
    [][StartStep =>
          \A f \in tracked_files' :
              (RecordedMeta(f) # NoMeta /\ RecordedTracked(f))
                  => (f \in ReportedChanged
                        <=> \/ src[f].size # RecordedMeta(f).size
                            \/ Abs(src[f].mtime - RecordedMeta(f).mtime) > 1)]_vars

(* C14 (as claimed): in a history without failures, the deleted set is     *)
(* exactly the set of paths the record marks as tracked that the current   *)
(* classification does not select as tracked.                              *)
C14_DeletedIsLostTracked ==
    [][(StartStep /\ faults = 0) =>
          deleted_files' \cap SrcFiles
              = {f \in SrcFiles : RecordedTracked(f) /\ f \notin tracked_files'}]_vars

-----------------------------------------------------------------------------
(* Claims about the mirror and the increment a run leaves (under Spec)     *)

(* a run completes: its last step returns, no kill *)
ReturnStep == pc # "idle" /\ pc' = "idle" /\ faults' = faults

(* path f was on record when the completing run started: an entry of the   *)
(* mirror.json the last completed run left, or for the script a file the   *)
(* mirror scan found                                                       *)
RecordedAtStart(f) ==
    IF variant = "axiomatic"
    THEN f \in DOMAIN load_mirror_state(committed)
    ELSE mcache[f] # NoMeta

(* C15 (as claimed): when a run completes, in a history without failures,  *)
(* the mirror holds no file whose path was on record at the start of the   *)
(* run and is absent from the run's classification.                        *)
C15_MirrorDropsUnclassified ==
    [][(ReturnStep /\ faults = 0)
          => \A f \in SrcFiles :
                (RecordedAtStart(f) /\ f \notin all_files) => mirror'[f] = NoIno]_vars

(* C16 (as claimed): when a run in which no copy failed completes, every   *)
(* classified file is in the mirror with exactly the size and mtime of     *)
(* the source file.                                                        *)
C16_MirrorHoldsSourceMeta ==
    [][(ReturnStep /\ failed = {})
          => \A f \in all_files : MirrorMeta(mirror', inodes', f) = src[f]]_vars

(* C16 (amended): when a run in which no copy failed completes, every      *)
(* classified file is in the mirror, with the size of the source file and  *)
(* an mtime within the tolerance of the comparison the implementation      *)
(* uses (one second for the class, none for the script).                   *)
C16_MirrorHoldsSourceWithinTolerance ==
    [][(ReturnStep /\ failed = {})
          => \A f \in all_files :
                /\ mirror'[f] # NoIno
                /\ MirrorMeta(mirror', inodes', f).size = src[f].size
                /\ IF variant = "axiomatic"
                   THEN ~metadata_differs(src[f], MirrorMeta(mirror', inodes', f))
                   ELSE MirrorMeta(mirror', inodes', f) = src[f]]_vars

(* C17 (as claimed): the increment directory of a run is there when the    *)
(* run completes only if the run put at least one file under its track/    *)
(* or deleted/ subtree.                                                    *)
C17_IncrementOnlyIfMaterialized ==
    [][(ReturnStep /\ has_incr)
          => \E f \in SrcFiles :
                \/ increments[CurIncr].track[f] # NoIno
                \/ increments[CurIncr].deleted[f] # NoIno]_vars

(* C18 (as claimed): at the step that writes the manifest of an increment, *)
(* every new or changed entry of the manifest exists under track/ of that  *)
(* increment with the size the manifest records.                           *)
C18_ManifestEntriesOnDisk ==
    [][\A i \in 1..Len(increments) :
          (/\ i <= Len(increments')
           /\ ~increments[i].manifest.written
           /\ increments'[i].manifest.written)
              => \A f \in DOMAIN increments'[i].manifest.catalog :
                    increments'[i].manifest.catalog[f].category # "deleted"
                        => /\ increments'[i].track[f] # NoIno
                           /\ EntryMeta(inodes', increments'[i].track[f]).size
                                 = increments'[i].manifest.catalog[f].size]_vars


(* the classification the last completed run worked with; prev.cfg is the  *)
(* configuration as that run held it (preprocessed, for the script)        *)
PrevClassified ==
    IF variant = "axiomatic"
    THEN build_file_sets(Existing(src), src_dirs, prev.cfg)
    ELSE build_mirror_set_with_metadata(Existing(src), prev.cfg)

(* C16 witness: a second run has completed in a history without any        *)
(* failure, and a file it classified is in the mirror with the size of the *)
(* source file and an mtime that is not the mtime of the source file.      *)
C16_Witness ==
    /\ pc = "idle" /\ prev.ok /\ faults = 0 /\ runs = 2
    /\ \E f \in PrevClassified.all_files :
          /\ mirror[f] # NoIno
          /\ MirrorMeta(mirror, inodes, f).size = src[f].size
          /\ MirrorMeta(mirror, inodes, f).mtime # src[f].mtime

-----------------------------------------------------------------------------
(* Claims about repeated and first runs (checked under Spec)               *)

(* the run in progress repeats the last completed run: nothing failed so   *)
(* far, the source was not touched since that run returned, and the rules  *)
(* are the rules of that run                                               *)
RepeatRun == prev.ok /\ faults = 0 /\ pc # "idle" /\ cfg = prev.cfg

(* the run in progress comes right after a completed run, failed copies in *)
(* that run or not, with the source and the rules unchanged                *)
RunAfterCompleted == prev.ok /\ pc # "idle" /\ cfg = prev.cfg

C20_ScenarioA_FirstRun ==
    [][(/\ ReturnStep /\ runs = 1 /\ faults = 0
        /\ committed.kind = "absent"
        /\ tracked_files # {})
          => /\ has_incr /\ Len(increments) = 1
             /\ \A f \in tracked_files :
                   /\ mirror[f] # NoIno
                   /\ increments[1].track[f] # NoIno
             /\ increments[1].manifest.written
             /\ increments[1].manifest.new_or_changed = Cardinality(tracked_files)
             /\ increments[1].manifest.deleted = 0
             /\ variant = "axiomatic"
                   => /\ mirror_json.kind = "state"
                      /\ DOMAIN mirror_json.state = all_files]_vars

(* C20 witness: the first run of the class over an empty mirror, with a    *)
(* tracked and an untracked file and no failure, is about to return with   *)
(* its increment made and mirror.json written.                             *)
C20_Witness ==
    /\ variant = "axiomatic" /\ pc = "return"
    /\ runs = 1 /\ faults = 0 /\ committed.kind = "absent"
    /\ tracked_files # {} /\ all_files # tracked_files
    /\ has_incr /\ increments[1].manifest.written
    /\ mirror_json.kind = "state"

-----------------------------------------------------------------------------
(* Claims about deleted tracked files and about failures (under Spec)      *)

(* the run returns at once because it classified no file *)
EmptyRunStep == pc = "idle" /\ pc' = "idle" /\ runs' = runs + 1

(* f was a tracked file of the last completed run and is gone from the     *)
(* source when the present run completes                                   *)
TrackedAndDeleted(f) ==
    /\ src[f] = NoMeta
    /\ IF variant = "axiomatic"
       THEN LET st == load_mirror_state(committed)
            IN  f \in DOMAIN st /\ st[f].tracked
       ELSE f \in last_tracked

(* C21 (as claimed): when a run with the rules of the last completed run   *)
(* completes, in a history without failures, every file that was tracked   *)
(* on record and has been deleted from the source is gone from the mirror, *)
(* is held under deleted/ of the increment of this run, and the written    *)
(* manifest counts the deleted files.                                      *)
C21_DeletedTrackedIsCaptured ==
    [][(/\ faults = 0
        /\ \/ ReturnStep /\ cfg = prev.cfg
           \/ EmptyRunStep /\ prev'.cfg = prev.cfg)
          => \A f \in SrcFiles :
                TrackedAndDeleted(f)
                   => /\ mirror'[f] = NoIno
                      /\ has_incr
                      /\ increments[CurIncr].deleted[f] # NoIno
                      /\ increments[CurIncr].manifest.written
                      /\ increments[CurIncr].manifest.deleted
                            = Cardinality({g \in SrcFiles : TrackedAndDeleted(g)})]_vars


-----------------------------------------------------------------------------
(* Claims about the command line (checked under SpecMain)                  *)

(* everything under the backup root, and the backup root itself *)
dstVars == <<dst_made, expanded_config, mirror, mirror_dirs, inodes, increments,
             mirror_json, tmp_json>>

DryPcs == {"d_capture", "d_track", "d_update", "d_cleanup"}

(* a step of a run started with --dry-run *)
DryRunStep ==
    \/ \E c \in RunConfigs : A_DryRun(c)
    \/ pc \in DryPcs
    \/ pc' \in DryPcs

(* C23 (as claimed): no step of a run with --dry-run creates the backup    *)
(* root, the mirror or an increment directory, copies, links or removes a  *)
(* file, or writes a manifest, the expanded config or the mirror state.    *)
C23_DryRunChangesNothing ==
    [][DryRunStep => UNCHANGED dstVars]_vars

(* a command that starts while the configuration file or the source root   *)
(* is missing                                                              *)
SetupErrorStep ==
    /\ pc = "idle" /\ runs' = runs + 1
    /\ ~config_exists \/ ~src_root

(* C24 (as claimed): a command started while the configuration file or the *)
(* source root is missing ends with exit code 1 and has created, modified  *)
(* or removed no file or directory.                                        *)
C24_SetupErrorIsFatalAndClean ==
    [][SetupErrorStep
          => /\ exit_code' = 1
             /\ pc' = "idle"
             /\ UNCHANGED <<dstVars, config_exists, src_root, src, src_dirs>>]_vars

-----------------------------------------------------------------------------
(* Claims about the mirror tree, the pool and the recorded state (Spec)    *)

(* C25 (as claimed; preserved_dirs empty): when a run completes, in a      *)
(* history without failures, where every mirror directory was made for a   *)
(* file copied into it, no directory below the mirror root is left without *)
(* a file under it, and the mirror root is still there.                    *)
C25_NoEmptyMirrorDirs ==
    [][(ReturnStep /\ faults = 0)
          => /\ \A d \in mirror_dirs' :
                   d # <<>> => \E f \in SrcFiles : mirror'[f] # NoIno /\ IsPrefix(d, f)
             /\ <<>> \in mirror_dirs => <<>> \in mirror_dirs']_vars


(* C27 (as claimed): when a run that replaced mirror.json completes, every *)
(* path recorded in mirror.json is a file of the mirror, whether or not a  *)
(* copy failed during the run.                                             *)
C27_RecordedPathsAreInMirror ==
    [][(ReturnStep /\ saves > 0)
          => \A f \in DOMAIN load_mirror_state(mirror_json) : mirror'[f] # NoIno]_vars


(* the run in progress has copied f into the mirror, after the last        *)
(* completed run, with the same rules and the same source, found f new or  *)
(* changed among the tracked files and never managed to copy it            *)
CopiedAfterFailure(f) ==
    /\ prev.ok /\ cfg = prev.cfg
    /\ f \in prev.failed
    /\ f \in copied \ failed

(* C28 (as claimed): when such a run completes, its increment holds the    *)
(* file under track/.                                                      *)
C28_RetriedFileReachesTrack ==
    [][ReturnStep
          => \A f \in SrcFiles :
                CopiedAfterFailure(f)
                   => has_incr /\ increments[CurIncr].track[f] # NoIno]_vars


-----------------------------------------------------------------------------
(* Claims about the copy pool (checked under SpecPool)                     *)

(* the step belongs to a worker thread: a task starts or finishes *)
WorkerStep == running' # running

(* the step collects one result of the open pool *)
CollectStep ==
    /\ pc = "p_pool" /\ group = {}
    /\ \E r \in results : results' = results \ {r} /\ futures' = futures \ {r.task}
    /\ UNCHANGED <<running, mirror, inodes>>

(* C26: no two copy tasks of a pool have the same destination path, and    *)
(* no step of a worker thread changes the success counter of the run: while *)
(* a pool is open the counter changes only when the thread of the run      *)
(* collects a result.                                                      *)
C26_DistinctDestinationsOneCounter ==
    /\ [](\A t1, t2 \in group \cup futures : t1.dst = t2.dst => t1 = t2)
    /\ [][total_success' # total_success
             => /\ ~WorkerStep
                /\ pc = "p_pool" => CollectStep]_vars

(* C26 witness: the script has collected one success while another task of *)
(* the same pool is still running in a worker.                             *)
C26_Witness ==
    /\ variant = "script" /\ pc = "p_pool"
    /\ total_success = 1
    /\ running # {}


-----------------------------------------------------------------------------
(* The explorer (backup_tool.py) over the increments on disk               *)

(* find_all_backups: the backup_* directories that hold track/ or deleted/ *)
find_all_backups(incs) ==
    {i \in 1..Len(incs) : incs[i].track_dir \/ incs[i].deleted_dir}

(* load_metadata followed by the test "file_catalog" in metadata: the      *)
(* catalog of the manifest, empty when there is no manifest or when the    *)
(* manifest has no such key, as is the case for the manifests of the script *)
load_file_catalog(v, inc) ==
    IF inc.manifest.written /\ v = "axiomatic" THEN inc.manifest.catalog ELSE <<>>

(* a path below the increment directory names a file there: the increment  *)
(* holds files under track/ and under deleted/ only, beside its manifest   *)
increment_has_file(inc, path) ==
    /\ Len(path) > 1
    /\ \/ path[1] = "track"   /\ inc.track[Tail(path)] # NoIno
       \/ path[1] = "deleted" /\ inc.deleted[Tail(path)] # NoIno

(* the results search_files draws from one increment, for a pattern that   *)
(* every path matches and no filter: the manifest gives no "backup_path",  *)
(* so it defaults to "<category>/<path>", and full_backup_path is that     *)
(* path below the increment directory                                      *)
backup_results(v, i, inc) ==
    LET file_catalog == load_file_catalog(v, inc)
    IN  {[backup |-> i, path |-> f,
          category |-> file_catalog[f].category,
          full_backup_path |-> <<file_catalog[f].category>> \o f] :
            f \in DOMAIN file_catalog}

(* search_files; patterns and filters only drop results *)
search_files(v, incs) ==
    UNION {backup_results(v, i, incs[i]) : i \in find_all_backups(incs)}

(* C29 (as claimed): in a history without failures, the full_backup_path   *)
(* of every result of search_files names a file that exists inside the     *)
(* increment the result comes from, under track/ or under deleted/.        *)
C29_SearchResultsExist ==
    faults = 0 =>
        \A r \in search_files(variant, increments) :
            increment_has_file(increments[r.backup], r.full_backup_path)


-----------------------------------------------------------------------------
(* Claims about the explorer's recreate_metadata (checked under SpecTool)  *)

(* the step is a call of recreate_metadata *)
RecreateStep == tool_calls' = tool_calls + 1

(* what the call of this step found and what it left, for the increment it *)
(* was made on: a catalog entry for each file on disk and for nothing      *)
(* else, the two counts of the summary equal to the numbers of files under *)
(* track/ and under deleted/, total_operations equal to total_files, and   *)
(* that metadata in the manifest file                                      *)
RecreatedMatchesDisk ==
    LET inc  == increments'[last_call'.backup]
        md   == last_call'.metadata
        disk == FilesOnDisk(inc)
    IN  /\ DOMAIN md.file_catalog = {e.path : e \in disk}
        /\ Cardinality(DOMAIN md.file_catalog) = Cardinality(disk)
        /\ \A e \in disk : md.file_catalog[e.path].category = e.category
        /\ md.summary.new_or_changed_tracked
              = Cardinality({e \in disk : e.category = "track"})
        /\ md.summary.deleted_tracked
              = Cardinality({e \in disk : e.category = "deleted"})
        /\ md.summary.total_operations = md.statistics.total_files
        /\ inc.manifest = dumped_manifest(md)

(* a call without force on an increment that has a manifest returns False  *)
(* and leaves the manifest as it was                                       *)
NoForceKeepsManifest ==
    (~last_call'.force /\ increments[last_call'.backup].manifest.written)
        => ~last_call'.returned /\ increments' = increments

=============================================================================
